---- MODULE Spec2Model ----
(***************************************************************************)
(* Model of src/backoff.js: validateConfig, generateSchedule and           *)
(* buildChartMathExplanation of the backoff calculator.                    *)
(*                                                                         *)
(* JavaScript values are records [k, v].  k = "num" is a finite number,    *)
(* held in v as a count of quarter milliseconds (so that c / 2 and         *)
(* c * 0.75 of every whole-millisecond c are exact, as they are in         *)
(* binary64); k = "inf" is +Infinity (v = 1) or -Infinity (v = -1);        *)
(* k = "nan" is NaN; k = "undefined" and k = "null" are the two            *)
(* non-numbers a field can hold.  Arithmetic is IEEE-754 without rounding  *)
(* inside the finite range: a result beyond MaxFinite overflows to         *)
(* Infinity, 0 * Infinity is NaN, NaN propagates, and every comparison     *)
(* with NaN is false.  MaxFinite stands for Number.MAX_VALUE, scaled down  *)
(* together with the retry counts that are run: in binary64                *)
(* 10 ** 309 is Infinity, and MAX_RETRIES_LIMIT = 1000 retries reach that  *)
(* exponent, as MaxRunRetries retries reach MaxFinite here.                *)
(***************************************************************************)
EXTENDS Integers, Sequences, FiniteSets, TLC

VARIABLES
    config,                 \* the configuration object handed to every call
    validation,             \* what the last validateConfig(config) call returned
    pc,                     \* generateSchedule: "idle" or inside its loop
    jitterType,             \* generateSchedule locals (lines 324-330)
    schedule,
    retry,
    cumulativeDelayMs,
    cumulativeMinDelayMs,
    cumulativeMaxDelayMs,
    outcome,                \* how the last generateSchedule call ended
    previous,               \* how the generateSchedule call before it ended
    lastContext,            \* the context of the last buildChartMathExplanation call
    explanation,            \* how that call ended
    given,                  \* the configs that validation, outcome and previous come from
    summary,                \* the last summarizeSchedule call: its argument and result
    baseUrl,                \* src/share.js: the arguments of createShareUrl
    shareState,
    shareUrl,               \* what createShareUrl returned
    parsedState,            \* what readShareStateFromUrl returned for shareUrl
    inputs,                 \* src/main.js: the values of the form controls
    controls,               \* what recompute shows of the controls themselves
    fieldMessages,          \* the per-field validation messages
    view,                   \* the table headers, the chart, the table and the summary
    cachedSimulation,       \* cachedSimulationKey and cachedSimulationPoints
    hasWorkingChart,
    lastValidView,          \* the view as the last recompute of valid inputs left it
    selection,              \* src/ui.js: the chart selection state in use
    selectionCall,          \* the last call on it: operation, arguments, what it returned
    mathJax,                \* src/ui.js: whether globalThis.MathJax can typeset
    pendingMathTypesetContainer,
    mathTypesetQueue,       \* the links of the promise chain, oldest first
    clock,                  \* src/main.js, debounce: the time, in units of waitMs / Wait
    timeoutId,              \* the id setTimeout returned last, null before
    timers,                 \* the timers set and neither run nor cleared
    debouncedCalls,         \* the calls of the debounced function so far
    fnRuns                  \* the runs of the wrapped function so far

vars == <<config, validation, pc, jitterType, schedule, retry, cumulativeDelayMs,
          cumulativeMinDelayMs, cumulativeMaxDelayMs, outcome, previous, lastContext,
          explanation, given, summary, baseUrl, shareState, shareUrl, parsedState,
          inputs, controls, fieldMessages, view, cachedSimulation, hasWorkingChart,
          lastValidView, selection, selectionCall, mathJax, pendingMathTypesetContainer,
          mathTypesetQueue, clock, timeoutId, timers, debouncedCalls, fnRuns>>

shareVars == <<baseUrl, shareState, shareUrl, parsedState>>

appVars == <<inputs, controls, fieldMessages, view, cachedSimulation, hasWorkingChart,
             lastValidView>>

\* The state of the modules other than src/backoff.js.
\* The chart selection state and the last call on it.
selectionVars == <<selection, selectionCall>>

\* The MathJax typesetting queue.
typesetVars == <<mathJax, pendingMathTypesetContainer, mathTypesetQueue>>

\* A debounced function and its timer.
debounceVars == <<clock, timeoutId, timers, debouncedCalls, fnRuns>>

pageVars == <<selectionVars, typesetVars, debounceVars>>

uiVars == <<shareVars, appVars, pageVars>>

\* What validateConfig, generateSchedule and buildChartMathExplanation leave alone.
outside == <<summary, uiVars>>

\* The state of src/backoff.js.
coreVars == <<config, validation, pc, jitterType, schedule, retry, cumulativeDelayMs,
              cumulativeMinDelayMs, cumulativeMaxDelayMs, outcome, previous, lastContext,
              explanation, given, summary>>

explained == <<lastContext, explanation>>

genLocals == <<jitterType, schedule, retry, cumulativeDelayMs,
               cumulativeMinDelayMs, cumulativeMaxDelayMs>>

-----------------------------------------------------------------------------
(* Bounds of the model *)

\* Largest finite magnitude, in milliseconds (stands for Number.MAX_VALUE).
MaxFinite == 20

\* generateSchedule is run for configurations of at most this many retries.
MaxRunRetries == 4

\* src/backoff.js line 8
MAX_RETRIES_LIMIT == 1000

-----------------------------------------------------------------------------
(* JavaScript numbers *)

Num(ms) == [k |-> "num", v |-> 4 * ms]
Quarters(q) == [k |-> "num", v |-> q]
Infinity == [k |-> "inf", v |-> 1]
NegInfinity == [k |-> "inf", v |-> -1]
NaN == [k |-> "nan", v |-> 0]
Undefined == [k |-> "undefined", v |-> 0]
Null == [k |-> "null", v |-> 0]

\* The binary64 result of an exact value of q quarter milliseconds.
Overflow(q) ==
    IF q > 4 * MaxFinite THEN Infinity
    ELSE IF q < -(4 * MaxFinite) THEN NegInfinity
    ELSE Quarters(q)

Sign(x) == IF x.v > 0 THEN 1 ELSE IF x.v < 0 THEN -1 ELSE 0

\* a * b
Mul(a, b) ==
    IF a.k = "nan" \/ b.k = "nan" THEN NaN
    ELSE IF a.k = "inf" \/ b.k = "inf"
         THEN IF Sign(a) * Sign(b) = 0 THEN NaN
              ELSE IF Sign(a) * Sign(b) > 0 THEN Infinity ELSE NegInfinity
    ELSE Overflow((a.v * b.v) \div 4)

\* a + b
Add(a, b) ==
    IF a.k = "nan" \/ b.k = "nan" THEN NaN
    ELSE IF a.k = "inf" /\ b.k = "inf"
         THEN IF a.v = b.v THEN a ELSE NaN
    ELSE IF a.k = "inf" THEN a
    ELSE IF b.k = "inf" THEN b
    ELSE Overflow(a.v + b.v)

\* base ** n for an integer n >= 0 (x ** 0 is 1 for every x)
RECURSIVE Pow(_, _)
Pow(base, n) == IF n = 0 THEN Num(1) ELSE Mul(base, Pow(base, n - 1))

\* a < b, a <= b, a > b: false when either side is NaN
Less(a, b) ==
    /\ a.k # "nan" /\ b.k # "nan"
    /\ IF a.k = "inf" THEN a.v < 0 /\ ~(b.k = "inf" /\ b.v < 0)
       ELSE IF b.k = "inf" THEN b.v > 0
       ELSE a.v < b.v

LessEq(a, b) == a.k # "nan" /\ b.k # "nan" /\ (a = b \/ Less(a, b))

Greater(a, b) == Less(b, a)

\* Math.min(a, b)
MathMin(a, b) ==
    IF a.k = "nan" \/ b.k = "nan" THEN NaN
    ELSE IF Less(b, a) THEN b ELSE a

\* line 116: typeof value === "number" && Number.isFinite(value)
isFiniteNumber(value) == value.k = "num"

\* Number.isInteger(value)
NumberIsInteger(value) == value.k = "num" /\ value.v % 4 = 0

-----------------------------------------------------------------------------
(* Helpers of src/backoff.js *)

\* lines 211-213
isJitterType(value) == value = "none" \/ value = "equal" \/ value = "full"

\* line 9
DEFAULT_JITTER_TYPE == "none"

\* lines 219-224
resolveJitterType(value) == IF isJitterType(value) THEN value ELSE DEFAULT_JITTER_TYPE

\* lines 230-252
toDelayRange(cappedDelayMs, jitter) ==
    IF jitter = "equal"
    THEN [minDelayMs |-> Mul(cappedDelayMs, Quarters(2)),
          expectedDelayMs |-> Mul(cappedDelayMs, Quarters(3)),
          maxDelayMs |-> cappedDelayMs]
    ELSE IF jitter = "full"
    THEN [minDelayMs |-> Num(0),
          expectedDelayMs |-> Mul(cappedDelayMs, Quarters(2)),
          maxDelayMs |-> cappedDelayMs]
    ELSE [minDelayMs |-> cappedDelayMs,
          expectedDelayMs |-> cappedDelayMs,
          maxDelayMs |-> cappedDelayMs]

ValidationError(f, m) == [field |-> f, message |-> m]

\* lines 265-271
strategyErrors(c) ==
    IF c.strategy # "exponential" /\ c.strategy # "linear" /\ c.strategy # "fixed"
    THEN <<ValidationError("strategy", "Must be exponential, linear, or fixed.")>>
    ELSE <<>>

\* lines 273-275
initialDelayMsErrors(c) ==
    IF ~isFiniteNumber(c.initialDelayMs) \/ Less(c.initialDelayMs, Num(0))
    THEN <<ValidationError("initialDelayMs", "Must be >= 0.")>>
    ELSE <<>>

\* lines 277-286 with the upper limit excluded
maxRetriesErrorsExclusive(c) ==
    IF \/ ~NumberIsInteger(c.maxRetries)
       \/ Less(c.maxRetries, Num(0))
       \/ ~Less(c.maxRetries, Num(MAX_RETRIES_LIMIT))
    THEN <<ValidationError("maxRetries",
               "Must be an integer between 0 and " \o ToString(MAX_RETRIES_LIMIT) \o ".")>>
    ELSE <<>>

\* lines 277-286
maxRetriesErrors(c) ==
    IF \/ ~NumberIsInteger(c.maxRetries)
       \/ Less(c.maxRetries, Num(0))
       \/ Greater(c.maxRetries, Num(MAX_RETRIES_LIMIT))
    THEN <<ValidationError("maxRetries",
               "Must be an integer between 0 and " \o ToString(MAX_RETRIES_LIMIT) \o ".")>>
    ELSE <<>>

\* lines 288-293
maxDelayMsErrors(c) ==
    IF /\ c.maxDelayMs # Null
       /\ (~isFiniteNumber(c.maxDelayMs) \/ Less(c.maxDelayMs, Num(0)))
    THEN <<ValidationError("maxDelayMs", "Must be >= 0 or blank.")>>
    ELSE <<>>

\* lines 295-299 with the factor checked under every strategy
factorErrorsAnyStrategy(c) ==
    IF ~isFiniteNumber(c.factor) \/ LessEq(c.factor, Num(1))
    THEN <<ValidationError("factor", "Must be > 1.")>>
    ELSE <<>>

\* lines 295-299
factorErrors(c) ==
    IF c.strategy = "exponential"
    THEN IF ~isFiniteNumber(c.factor) \/ LessEq(c.factor, Num(1))
         THEN <<ValidationError("factor", "Must be > 1.")>>
         ELSE <<>>
    ELSE <<>>

\* lines 301-305
incrementMsErrors(c) ==
    IF c.strategy = "linear"
    THEN IF ~isFiniteNumber(c.incrementMs) \/ Less(c.incrementMs, Num(0))
         THEN <<ValidationError("incrementMs", "Must be >= 0.")>>
         ELSE <<>>
    ELSE <<>>

\* lines 307-309
jitterErrors(c) ==
    IF c.jitter # "undefined" /\ ~isJitterType(c.jitter)
    THEN <<ValidationError("jitter", "Must be none, equal, or full.")>>
    ELSE <<>>

\* validateConfig returning at its first failed rule
validateConfigFirstOnly(c) ==
    IF c.type # "object"
    THEN <<ValidationError("config", "Configuration is required.")>>
    ELSE IF strategyErrors(c) # <<>> THEN strategyErrors(c)
    ELSE IF initialDelayMsErrors(c) # <<>> THEN initialDelayMsErrors(c)
    ELSE IF maxRetriesErrors(c) # <<>> THEN maxRetriesErrors(c)
    ELSE IF maxDelayMsErrors(c) # <<>> THEN maxDelayMsErrors(c)
    ELSE IF factorErrors(c) # <<>> THEN factorErrors(c)
    ELSE IF incrementMsErrors(c) # <<>> THEN incrementMsErrors(c)
    ELSE jitterErrors(c)

\* lines 258-312: the errors are pushed in this order
validateConfig(c) ==
    IF c.type # "object"
    THEN <<ValidationError("config", "Configuration is required.")>>
    ELSE strategyErrors(c) \o initialDelayMsErrors(c) \o maxRetriesErrors(c)
         \o maxDelayMsErrors(c) \o factorErrors(c) \o incrementMsErrors(c)
         \o jitterErrors(c)

\* Array.prototype.join(sep) of an array of strings
RECURSIVE Join(_, _)
Join(strings, sep) ==
    IF Len(strings) = 0 THEN ""
    ELSE IF Len(strings) = 1 THEN strings[1]
    ELSE strings[1] \o sep \o Join(Tail(strings), sep)

Messages(errors) == [i \in 1..Len(errors) |-> errors[i].message]

\* lines 321 and 377: the message of the Error thrown for a non-empty error list
InvalidConfigurationMessage(errors) ==
    "Invalid configuration: " \o Join(Messages(errors), " ")

-----------------------------------------------------------------------------
(* The configurations handed to the functions *)

Config(s, d, n, cap, f, i, j) ==
    [type |-> "object", strategy |-> s, initialDelayMs |-> d, maxRetries |-> n,
     maxDelayMs |-> cap, factor |-> f, incrementMs |-> i, jitter |-> j]

\* config = null: no field is ever read (line 261 returns first)
NullConfig ==
    [type |-> "null", strategy |-> "undefined", initialDelayMs |-> Undefined,
     maxRetries |-> Undefined, maxDelayMs |-> Undefined, factor |-> Undefined,
     incrementMs |-> Undefined, jitter |-> "undefined"]

\* Every field at one accepted value or at one of the values its rule rejects;
\* jitter "undefined" is the absent field.
ProbeConfigs ==
    { Config(s, d, n, cap, f, i, j) :
        s \in {"exponential", "linear", "fixed", "bogus"},
        d \in {Num(1), Num(-1), NaN},
        n \in {Num(2), Num(-1), Quarters(5), Num(MAX_RETRIES_LIMIT),
               Num(MAX_RETRIES_LIMIT + 1), Undefined},
        cap \in {Null, Num(-1), Undefined},
        f \in {Num(2), Num(1), Undefined},
        i \in {Num(1), Num(-1), Undefined},
        j \in {"undefined", "random"} }

\* Accepted configurations whose schedules are generated.
RunConfigs ==
    { Config(s, d, Num(n), cap, f, i, j) :
        s \in {"exponential", "linear", "fixed"},
        d \in {Num(0), Num(1), Num(2)},
        n \in 0..MaxRunRetries,
        cap \in {Null, Num(2), Num(5)},
        f \in {Num(2), Num(3)},
        i \in {Num(0), Num(2)},
        j \in {"undefined", "none", "equal", "full"} }

Configs == ProbeConfigs \cup RunConfigs \cup {NullConfig}

NoOutcome == [status |-> "none", points |-> <<>>, message |-> ""]
Returned(points) == [status |-> "returned", points |-> points, message |-> ""]
Thrown(message) == [status |-> "thrown", points |-> <<>>, message |-> message]

NotValidated == [called |-> FALSE, errors |-> <<>>]

NoExplanation == [status |-> "none", model |-> <<>>, message |-> ""]
ExplanationReturned(model) == [status |-> "returned", model |-> model, message |-> ""]
ExplanationThrown(message) == [status |-> "thrown", model |-> <<>>, message |-> message]

\* Before the first buildChartMathExplanation call there is no context.
NoContext == [type |-> "none"]

\* No config has been handed to a call yet.
NoConfig == [NullConfig EXCEPT !.type = "none"]

NoSummary == [status |-> "none", input |-> <<>>, result |-> <<>>]

\* A JavaScript string is the sequence of its UTF-16 code units; a run of
\* ASCII letters and digits that is never taken apart (a parameter name, a
\* mode, an origin) is held as one element.  NoString is undefined.
Str(s) == [k |-> "string", s |-> s]
NoString == [k |-> "undefined", s |-> <<>>]

\* src/share.js lines 9-19: ShareState
ShareState(strategy, initialDelayMs, maxRetries, maxDelayMs, factor, incrementMs, jitter, displayMode, chartMode) ==
    [strategy |-> strategy, initialDelayMs |-> initialDelayMs, maxRetries |-> maxRetries,
     maxDelayMs |-> maxDelayMs, factor |-> factor, incrementMs |-> incrementMs,
     jitter |-> jitter, displayMode |-> displayMode, chartMode |-> chartMode]

EmptyShareState ==
    ShareState(NoString, NoString, NoString, NoString, NoString, NoString, NoString,
               NoString, NoString)

NotParsed == [called |-> FALSE, state |-> EmptyShareState]

ExampleUrl == Str(<<"https://example.com/">>)

\* Before createShareUrl is called on one of the base URLs and states.
InitShareWith(baseUrls, states) ==
    /\ baseUrl \in baseUrls
    /\ shareState \in states
    /\ shareUrl = NoString
    /\ parsedState = NotParsed

\* The values of the form's controls when the page is loaded: one valid form.
DefaultInputs ==
    [strategy |-> "exponential", initialDelayMs |-> "1", maxRetries |-> "2",
     maxDelayMs |-> "", factor |-> "2", incrementMs |-> "1", jitter |-> "none",
     displayMode |-> "ms", chartMode |-> "delay", chartSeriesMode |-> "expected"]

FieldIds == {"initialDelayMs", "maxRetries", "maxDelayMs", "factor", "incrementMs"}

\* The page before its first recompute: nothing is rendered yet.
NoMessages ==
    [text |-> [field \in FieldIds |-> ""], ariaInvalid |-> [field \in FieldIds |-> FALSE],
     warning |-> FALSE]

NothingRendered == [rendered |-> FALSE, content |-> <<>>]

InitialView ==
    [headers |-> NothingRendered, chart |-> NothingRendered, table |-> NothingRendered,
     summary |-> NothingRendered]

\* src/main.js lines 863-865: the controls as synchronised with the form
InitialControls ==
    [factorGroupHidden |-> DefaultInputs.strategy # "exponential",
     incrementGroupHidden |-> DefaultInputs.strategy # "linear",
     jitterTriggerValue |-> "None", chartSeriesReserved |-> TRUE]

\* src/main.js lines 343-344: the empty key is the key of no configuration
NoSimulation == [key |-> NoConfig, points |-> <<>>]

\* src/main.js lines 160-170: the page with its chart created or not
InitApp ==
    /\ inputs = DefaultInputs
    /\ controls = InitialControls
    /\ fieldMessages = NoMessages
    /\ view = InitialView
    /\ cachedSimulation = NoSimulation
    /\ hasWorkingChart \in BOOLEAN
    /\ lastValidView = InitialView

\* The application is loaded with a working chart and left alone.
AppUnused == InitApp /\ hasWorkingChart

\* src/ui.js lines 898-904
createChartSelectionState ==
    [hoverIndex |-> Null, pinnedIndex |-> Null, isPointerInside |-> FALSE]

NoSelectionCall ==
    [op |-> "createChartSelectionState", state |-> createChartSelectionState,
     argument |-> Undefined, returned |-> createChartSelectionState]

InitSelection ==
    /\ selection = createChartSelectionState
    /\ selectionCall = NoSelectionCall

\* src/ui.js lines 15-16: no container is pending and the chain is the
\* resolved promise
InitTypeset ==
    /\ pendingMathTypesetContainer = Null
    /\ mathTypesetQueue = <<>>

\* src/main.js line 25: a debounced function that was never called
InitDebounce ==
    /\ clock = 0
    /\ timeoutId = Null
    /\ timers = {}
    /\ debouncedCalls = <<>>
    /\ fnRuns = <<>>

\* The page's widgets before anything happens to them.
PageUnused == InitSelection /\ InitTypeset /\ mathJax = FALSE /\ InitDebounce

\* Before any call: the accumulators hold what a fresh call gives them.
InitCore(configs) ==
    /\ config \in configs
    /\ validation = NotValidated
    /\ pc = "idle"
    /\ jitterType = DEFAULT_JITTER_TYPE
    /\ schedule = <<>>
    /\ retry = 1
    /\ cumulativeDelayMs = Num(0)
    /\ cumulativeMinDelayMs = Num(0)
    /\ cumulativeMaxDelayMs = Num(0)
    /\ outcome = NoOutcome
    /\ previous = NoOutcome
    /\ lastContext = NoContext
    /\ explanation = NoExplanation
    /\ given = [initial |-> config, validate |-> NoConfig, generate |-> NoConfig,
                generateBefore |-> NoConfig]
    /\ summary = NoSummary

InitWith(configs) ==
    /\ InitCore(configs)
    /\ InitShareWith({ExampleUrl}, {EmptyShareState})
    /\ AppUnused
    /\ PageUnused

Init == InitWith(Configs)

-----------------------------------------------------------------------------
(* validateConfig(config), called on its own *)

ValidateConfig ==
    /\ pc = "idle"
    /\ validation' = [called |-> TRUE, errors |-> validateConfig(config)]
    /\ given' = [given EXCEPT !.validate = config]
    /\ UNCHANGED <<config, pc, genLocals, outcome, previous, explained, outside>>

-----------------------------------------------------------------------------
(* generateSchedule(config), lines 318-364 *)

\* The schedules of at most MaxRunRetries retries are generated.
Runnable(c) ==
    \/ Len(validateConfig(c)) > 0
    \/ LessEq(c.maxRetries, Num(MaxRunRetries))

\* a running total that starts at 1 ms
InitialTotalOne == Num(1)

\* lines 326-328: the running totals of a call start at 0
InitialTotal == Num(0)

\* the running totals kept from the call before (accumulators outside the function)
KeepTotals == UNCHANGED <<cumulativeDelayMs, cumulativeMinDelayMs, cumulativeMaxDelayMs>>

\* lines 326-328: let cumulativeDelayMs = 0, ... at every call
ResetTotals ==
    /\ cumulativeDelayMs' = InitialTotal
    /\ cumulativeMinDelayMs' = InitialTotal
    /\ cumulativeMaxDelayMs' = InitialTotal

\* a throw only for two errors or more
HasManyErrors(errors) == Len(errors) > 1

\* line 320: errors.length > 0
HasErrors(errors) == Len(errors) > 0

\* The config of the call that ends joins the config of the call before it.
GivenToGenerate == [given EXCEPT !.generateBefore = given.generate, !.generate = config]

\* lines 319-330: validation, then the loop's initialisation
GenerateScheduleCall ==
    /\ pc = "idle"
    /\ Runnable(config)
    /\ LET errors == validateConfig(config) IN
         IF HasErrors(errors)
         THEN /\ outcome' = Thrown(InvalidConfigurationMessage(errors))
              /\ previous' = outcome
              /\ given' = GivenToGenerate
              /\ UNCHANGED <<pc, genLocals>>
         ELSE /\ pc' = "loop"
              /\ jitterType' = resolveJitterType(config.jitter)
              /\ schedule' = <<>>
              /\ ResetTotals
              /\ retry' = 1
              /\ UNCHANGED <<outcome, previous, given>>
    /\ UNCHANGED <<config, validation, explained, outside>>

\* lines 333-339
RawDelay(c, r) ==
    IF c.strategy = "exponential"
    THEN Mul(c.initialDelayMs, Pow(c.factor, r - 1))
    ELSE IF c.strategy = "linear"
    THEN Add(c.initialDelayMs, Mul(Num(r - 1), c.incrementMs))
    ELSE c.initialDelayMs

\* lines 341-342; maxDelayMs == null holds for null and for undefined
CappedDelay(c, rawDelayMs) ==
    IF c.maxDelayMs.k \in {"null", "undefined"}
    THEN rawDelayMs
    ELSE MathMin(rawDelayMs, c.maxDelayMs)

\* the jitter range taken from the raw delay, the cap ignored
DelayRangeOfRaw(c, rawDelayMs, jitter) == toDelayRange(rawDelayMs, jitter)

\* lines 343-344
DelayRange(c, rawDelayMs, jitter) == toDelayRange(CappedDelay(c, rawDelayMs), jitter)

\* line 344
DelayOf(range) == range.expectedDelayMs

\* lines 350-360
RetryPoint(r, rawDelayMs, range, delayMs, cumulative, cumulativeMin, cumulativeMax) ==
    [retry |-> r,
     rawDelayMs |-> rawDelayMs,
     minDelayMs |-> range.minDelayMs,
     expectedDelayMs |-> range.expectedDelayMs,
     maxDelayMs |-> range.maxDelayMs,
     delayMs |-> delayMs,
     cumulativeDelayMs |-> cumulative,
     cumulativeMinDelayMs |-> cumulativeMin,
     cumulativeMaxDelayMs |-> cumulativeMax]

\* retry < config.maxRetries: the last retry left out
LoopConditionStrict == Less(Num(retry), config.maxRetries)

\* line 330: retry <= config.maxRetries
LoopCondition == LessEq(Num(retry), config.maxRetries)

\* line 330: retry += 1
NextRetry(r) == r + 1

\* lines 330-361: one iteration of the loop
GenerateScheduleIterate ==
    /\ pc = "loop"
    /\ LoopCondition
    /\ LET rawDelayMs == RawDelay(config, retry)
           range == DelayRange(config, rawDelayMs, jitterType)
           delayMs == DelayOf(range)
       IN /\ cumulativeDelayMs' = Add(cumulativeDelayMs, delayMs)
          /\ cumulativeMinDelayMs' = Add(cumulativeMinDelayMs, range.minDelayMs)
          /\ cumulativeMaxDelayMs' = Add(cumulativeMaxDelayMs, range.maxDelayMs)
          /\ schedule' = Append(schedule,
                RetryPoint(retry, rawDelayMs, range, delayMs,
                           cumulativeDelayMs', cumulativeMinDelayMs',
                           cumulativeMaxDelayMs'))
    /\ retry' = NextRetry(retry)
    /\ UNCHANGED <<config, validation, pc, jitterType, outcome, previous, explained,
                   given, outside>>

\* line 363: return schedule
GenerateScheduleReturn ==
    /\ pc = "loop"
    /\ ~LoopCondition
    /\ pc' = "idle"
    /\ outcome' = Returned(schedule)
    /\ previous' = outcome
    /\ given' = GivenToGenerate
    /\ UNCHANGED <<config, validation, genLocals, explained, outside>>

Next ==
    \/ ValidateConfig
    \/ GenerateScheduleCall
    \/ GenerateScheduleIterate
    \/ GenerateScheduleReturn

Spec == Init /\ [][Next]_vars

-----------------------------------------------------------------------------
(* buildChartMathExplanation(context), lines 370-487 *)

\* lines 124-129
resolveChartMathMode(value) == IF value = "cumulative" THEN "cumulative" ELSE "delay"

\* lines 135-140
resolveChartMathSeriesMode(value) == IF value = "simulated" THEN "simulated" ELSE "expected"

\* lines 147-157 with the retry index as the exponent and the multiplier
rawDelayAtRetryFromZero(c, r) ==
    IF c.strategy = "exponential"
    THEN Mul(c.initialDelayMs, Pow(c.factor, r))
    ELSE IF c.strategy = "linear"
    THEN Add(c.initialDelayMs, Mul(Num(r), c.incrementMs))
    ELSE c.initialDelayMs

\* lines 147-157
rawDelayAtRetry(c, r) ==
    IF c.strategy = "exponential"
    THEN Mul(c.initialDelayMs, Pow(c.factor, r - 1))
    ELSE IF c.strategy = "linear"
    THEN Add(c.initialDelayMs, Mul(Num(r - 1), c.incrementMs))
    ELSE c.initialDelayMs

\* lines 163-169
cappedDelayAtRetry(c, r) ==
    IF c.maxDelayMs.k \in {"null", "undefined"}
    THEN rawDelayAtRetry(c, r)
    ELSE MathMin(rawDelayAtRetry(c, r), c.maxDelayMs)

ActivePoint(r, value, min, max) ==
    [type |-> "object", retry |-> r, valueMs |-> value, minMs |-> min, maxMs |-> max]

NullPoint ==
    [type |-> "null", retry |-> Undefined, valueMs |-> Undefined,
     minMs |-> Undefined, maxMs |-> Undefined]

\* context.activePoint left out (undefined), or a value that is not an object
MissingPoint == [NullPoint EXCEPT !.type = "undefined"]
NumberPoint == [NullPoint EXCEPT !.type = "number"]

\* lines 176-205 without the upper limit of the retry index
normalizeActivePointUnlimited(activePoint, maxRetries) ==
    IF activePoint.type # "object" THEN NullPoint
    ELSE IF \/ ~NumberIsInteger(activePoint.retry)
            \/ Less(activePoint.retry, Num(1))
            \/ ~isFiniteNumber(activePoint.valueMs)
    THEN NullPoint
    ELSE ActivePoint(activePoint.retry,
                     activePoint.valueMs,
                     IF isFiniteNumber(activePoint.minMs)
                     THEN activePoint.minMs ELSE activePoint.valueMs,
                     IF isFiniteNumber(activePoint.maxMs)
                     THEN activePoint.maxMs ELSE activePoint.valueMs)

\* lines 176-205
normalizeActivePoint(activePoint, maxRetries) ==
    IF activePoint.type # "object" THEN NullPoint
    ELSE IF \/ ~NumberIsInteger(activePoint.retry)
            \/ Less(activePoint.retry, Num(1))
            \/ Greater(activePoint.retry, maxRetries)
            \/ ~isFiniteNumber(activePoint.valueMs)
    THEN NullPoint
    ELSE ActivePoint(activePoint.retry,
                     activePoint.valueMs,
                     IF isFiniteNumber(activePoint.minMs)
                     THEN activePoint.minMs ELSE activePoint.valueMs,
                     IF isFiniteNumber(activePoint.maxMs)
                     THEN activePoint.maxMs ELSE activePoint.valueMs)

\* lines 408-412: the capped delays of retries 1..n, added in ascending order
\* the sum of the raw delays
RECURSIVE cumulativeBaseOfRaw(_, _)
cumulativeBaseOfRaw(c, n) ==
    IF n = 0 THEN Num(0) ELSE Add(cumulativeBaseOfRaw(c, n - 1), rawDelayAtRetry(c, n))

RECURSIVE cumulativeBase(_, _)
cumulativeBase(c, n) ==
    IF n = 0 THEN Num(0) ELSE Add(cumulativeBase(c, n - 1), cappedDelayAtRetry(c, n))

\* lines 407-415 with the single capped delay in every chart mode
baseChartValueSingle(c, chartMode, activeRetry, cappedDelayMs) == cappedDelayMs

\* lines 407-415
baseChartValue(c, chartMode, activeRetry, cappedDelayMs) ==
    IF chartMode = "cumulative" THEN cumulativeBase(c, activeRetry) ELSE cappedDelayMs

\* the resolved record with a base value of 0 where there is none
NullResolvedZeroBase(charted) ==
    [rawDelayMs |-> Null, cappedDelayMs |-> Null, baseChartValueMs |-> Num(0),
     expectedDelayMs |-> Null, minDelayMs |-> Null, maxDelayMs |-> Null,
     randomizedMinValueMs |-> Null, randomizedExpectedValueMs |-> Null,
     randomizedMaxValueMs |-> Null, chartedValueMs |-> charted]

\* lines 389-421 and 473-484: the resolved record
NullResolved(charted) ==
    [rawDelayMs |-> Null, cappedDelayMs |-> Null, baseChartValueMs |-> Null,
     expectedDelayMs |-> Null, minDelayMs |-> Null, maxDelayMs |-> Null,
     randomizedMinValueMs |-> Null, randomizedExpectedValueMs |-> Null,
     randomizedMaxValueMs |-> Null, chartedValueMs |-> charted]

\* line 483 reading the lower end of the point's range
chartedValueMin(activePoint) ==
    IF activePoint.type = "object" THEN activePoint.minMs ELSE Null

\* line 483: activePoint?.valueMs ?? null
chartedValue(activePoint) ==
    IF activePoint.type = "object" THEN activePoint.valueMs ELSE Null

resolvedValues(c, jitter, chartMode, hasCap, activePoint) ==
    IF activePoint.type # "object" THEN NullResolved(chartedValue(activePoint))
    ELSE LET activeRetry == activePoint.retry.v \div 4
             rawDelayMs == rawDelayAtRetry(c, activeRetry)
             cappedDelayMs == IF hasCap THEN MathMin(rawDelayMs, c.maxDelayMs)
                              ELSE rawDelayMs
             resolvedRange == toDelayRange(cappedDelayMs, jitter)
             baseChartValueMs == baseChartValue(c, chartMode, activeRetry, cappedDelayMs)
             randomizedRange == toDelayRange(baseChartValueMs, jitter)
         IN [rawDelayMs |-> rawDelayMs,
             cappedDelayMs |-> cappedDelayMs,
             baseChartValueMs |-> baseChartValueMs,
             expectedDelayMs |-> resolvedRange.expectedDelayMs,
             minDelayMs |-> resolvedRange.minDelayMs,
             maxDelayMs |-> resolvedRange.maxDelayMs,
             randomizedMinValueMs |-> randomizedRange.minDelayMs,
             randomizedExpectedValueMs |-> randomizedRange.expectedDelayMs,
             randomizedMaxValueMs |-> randomizedRange.maxDelayMs,
             chartedValueMs |-> chartedValue(activePoint)]

\* The two strings a binding's value can hold.
Symbolic == [k |-> "string: symbolic", v |-> 0]
InfinitySign == [k |-> "string: \\u221e", v |-> 0]

Binding(symbol, label, value, visible) ==
    [symbol |-> symbol, label |-> label, value |-> value, visible |-> visible]

\* lines 424-455
variableBindings(c, hasCap, activeRetry) ==
    << Binding("D0", "Initial Delay (ms)", c.initialDelayMs, TRUE),
       Binding("F", "Backoff Factor",
               IF c.strategy = "exponential" THEN c.factor ELSE Null,
               c.strategy = "exponential"),
       Binding("I", "Linear Increment (ms)",
               IF c.strategy = "linear" THEN c.incrementMs ELSE Null,
               c.strategy = "linear"),
       Binding("Dcap", "Max Delay Cap (ms)",
               IF hasCap THEN c.maxDelayMs ELSE InfinitySign, TRUE),
       Binding("r", "Retry Index (1.." \o ToString(c.maxRetries.v \div 4) \o ")",
               IF activeRetry.k \in {"null", "undefined"} THEN Symbolic ELSE activeRetry,
               TRUE) >>

\* lines 380-486: the model returned for a valid configuration
explanationModel(context) ==
    LET c == context.config
        jitter == resolveJitterType(c.jitter)
        chartMode == resolveChartMathMode(context.chartMode)
        chartSeriesMode == resolveChartMathSeriesMode(context.chartSeriesMode)
        hasCap == c.maxDelayMs.k \notin {"null", "undefined"}
        activePoint == normalizeActivePoint(context.activePoint, c.maxRetries)
        activeRetry == IF activePoint.type = "object" THEN activePoint.retry ELSE Null
    IN [strategy |-> c.strategy,
        jitterType |-> jitter,
        chartMode |-> chartMode,
        chartSeriesMode |-> chartSeriesMode,
        hasCap |-> hasCap,
        maxRetries |-> c.maxRetries,
        activeRetry |-> activeRetry,
        activePoint |-> activePoint,
        chartSourceSymbol |-> IF chartSeriesMode = "simulated" THEN "S" ELSE "E",
        constants |->
            [initialDelayMs |-> c.initialDelayMs,
             factor |-> IF c.strategy = "exponential" THEN c.factor ELSE Null,
             incrementMs |-> IF c.strategy = "linear" THEN c.incrementMs ELSE Null,
             maxDelayMs |-> c.maxDelayMs],
        resolved |-> resolvedValues(c, jitter, chartMode, hasCap, activePoint),
        variableBindings |-> variableBindings(c, hasCap, activeRetry)]

\* the messages joined by a comma and a space
explanationFailureCommaJoined(errors) ==
    "Invalid configuration: " \o Join(Messages(errors), ", ")

\* lines 375-378: the message of the Error the builder throws for these errors
explanationFailure(errors) == InvalidConfigurationMessage(errors)

\* lines 370-487
buildChartMathExplanation(context) ==
    IF context.type # "object"
    THEN ExplanationThrown("Invalid chart math context.")
    ELSE LET errors == validateConfig(context.config) IN
         IF HasErrors(errors)
         THEN ExplanationThrown(explanationFailure(errors))
         ELSE ExplanationReturned(explanationModel(context))

\* The active points a caller passes: absent, or a retry index with a charted value
\* and its range; some with a missing or non-finite member.
ActivePoints ==
    {NullPoint, MissingPoint, NumberPoint}
    \cup { ActivePoint(Num(n), Num(3), Num(1), Num(7)) : n \in 0..(MaxRunRetries + 1) }
    \cup { ActivePoint(Num(n), Num(3), Undefined, NaN) : n \in 1..2 }
    \cup { ActivePoint(Num(1), NaN, Num(1), Num(7)),
           ActivePoint(Quarters(6), Num(3), Num(1), Num(7)),
           ActivePoint(Undefined, Num(3), Num(1), Num(7)) }

Contexts ==
    { [type |-> "object", config |-> config, chartMode |-> m, chartSeriesMode |-> sm,
       activePoint |-> a] :
        m \in {"delay", "cumulative", "log"},
        sm \in {"expected", "simulated", "median"},
        a \in ActivePoints }
    \cup
    { [type |-> "null", config |-> config, chartMode |-> "delay",
       chartSeriesMode |-> "expected", activePoint |-> NullPoint] }

\* One explanation is built in a behaviour.
BuildChartMathExplanation ==
    /\ pc = "idle"
    /\ explanation.status = "none"
    /\ Runnable(config)
    /\ \E ctx \in Contexts :
         /\ lastContext' = ctx
         /\ explanation' = buildChartMathExplanation(ctx)
    /\ UNCHANGED <<config, validation, pc, genLocals, outcome, previous, given, outside>>

\* The configurations handed to the explanation builder; the last ones have
\* delays whose sum overflows while the sum of their halves does not.
MathConfigs ==
    { c \in RunConfigs :
        /\ c.initialDelayMs \in {Num(0), Num(1)}
        /\ c.maxRetries \in {Num(0), Num(2), Num(MaxRunRetries)}
        /\ c.maxDelayMs \in {Null, Num(5)}
        /\ c.factor = Num(3)
        /\ c.incrementMs = Num(2)
        /\ c.jitter \in {"undefined", "equal", "full"} }
    \cup
    { c \in ProbeConfigs :
        /\ c.maxRetries \in {Num(2), Quarters(5)}
        /\ c.maxDelayMs = Null
        /\ c.factor = Undefined
        /\ c.incrementMs = Num(-1) }
    \cup
    { Config("fixed", Num(MaxFinite \div 2), Num(3), Null, Num(3), Num(2), j) :
        j \in {"equal", "full"} }
    \cup {NullConfig}

InitMath == InitWith(MathConfigs)

NextMath ==
    \/ GenerateScheduleCall
    \/ GenerateScheduleIterate
    \/ GenerateScheduleReturn
    \/ BuildChartMathExplanation

SpecMath == InitMath /\ [][NextMath]_vars

-----------------------------------------------------------------------------
(* validateConfig and generateSchedule called on a config and then on a     *)
(* second one that differs in a field its strategy does not use              *)

\* What the unused field holds in the second config: numbers its own rule
\* would reject, NaN, or nothing.
IrrelevantValues == {Num(1), Num(-1), NaN, Undefined}

\* The caller passes a second config: the first with factor replaced under
\* linear or fixed, or with incrementMs replaced under exponential or fixed.
ChangeIrrelevantField ==
    /\ pc = "idle"
    /\ config = given.initial
    /\ config.type = "object"
    /\ \/ /\ config.strategy \in {"linear", "fixed"}
          /\ \E value \in IrrelevantValues \ {config.factor} :
                config' = [config EXCEPT !.factor = value]
       \/ /\ config.strategy \in {"exponential", "fixed"}
          /\ \E value \in IrrelevantValues \ {config.incrementMs} :
                config' = [config EXCEPT !.incrementMs = value]
    /\ UNCHANGED <<validation, pc, genLocals, outcome, previous, explained, given, outside>>

\* First configs: accepted ones, and ones with a negative initial delay.
IrrelevantConfigs ==
    { c \in RunConfigs :
        /\ c.initialDelayMs = Num(1)
        /\ c.maxRetries \in {Num(2), Num(MaxRunRetries)}
        /\ c.maxDelayMs \in {Null, Num(5)}
        /\ c.factor = Num(3)
        /\ c.incrementMs = Num(2)
        /\ c.jitter \in {"undefined", "equal"} }
    \cup
    { c \in ProbeConfigs :
        /\ c.strategy # "bogus"
        /\ c.initialDelayMs = Num(-1)
        /\ c.maxRetries = Num(2)
        /\ c.maxDelayMs = Null
        /\ c.factor = Num(2)
        /\ c.incrementMs = Num(1)
        /\ c.jitter = "undefined" }

InitIrrelevant == InitWith(IrrelevantConfigs)

NextIrrelevant ==
    \/ ValidateConfig
    \/ GenerateScheduleCall
    \/ GenerateScheduleIterate
    \/ GenerateScheduleReturn
    \/ ChangeIrrelevantField

SpecIrrelevant == InitIrrelevant /\ [][NextIrrelevant]_vars

-----------------------------------------------------------------------------
(* summarizeSchedule(points), lines 493-509 *)

\* An argument of summarizeSchedule: an array of points, or a value that is none.
ArrayOf(points) == [type |-> "array", points |-> points]
NotAnArray(type) == [type |-> type, points |-> <<>>]

ScheduleSummary(totalRetries, finalDelayMs, totalDelayMs) ==
    [totalRetries |-> totalRetries, finalDelayMs |-> finalDelayMs,
     totalDelayMs |-> totalDelayMs]

\* lines 493-509 reading the first point of the array
summarizeScheduleFirst(points) ==
    IF points.type # "array" \/ Len(points.points) = 0
    THEN ScheduleSummary(Num(0), Num(0), Num(0))
    ELSE LET last == points.points[1]
         IN ScheduleSummary(Num(Len(points.points)), last.delayMs, last.cumulativeDelayMs)

\* lines 493-509
summarizeSchedule(points) ==
    IF points.type # "array" \/ Len(points.points) = 0
    THEN ScheduleSummary(Num(0), Num(0), Num(0))
    ELSE LET last == points.points[Len(points.points)]
         IN ScheduleSummary(Num(Len(points.points)), last.delayMs, last.cumulativeDelayMs)

Reversed(points) == [i \in 1..Len(points) |-> points[Len(points) + 1 - i]]

\* What a caller passes: no array, an empty array, the schedule generateSchedule
\* returned, or the points of that schedule in another order.
SummaryInputs ==
    {NotAnArray("null"), NotAnArray("undefined"), NotAnArray("object"), ArrayOf(<<>>)}
    \cup (IF outcome.status = "returned"
          THEN {ArrayOf(outcome.points), ArrayOf(Reversed(outcome.points))}
          ELSE {})

SummarizeSchedule ==
    /\ pc = "idle"
    /\ \E points \in SummaryInputs :
         summary' = [status |-> "returned", input |-> points,
                     result |-> summarizeSchedule(points)]
    /\ UNCHANGED <<config, validation, pc, genLocals, outcome, previous, explained, given,
                   uiVars>>

NextSummary ==
    \/ GenerateScheduleCall
    \/ GenerateScheduleIterate
    \/ GenerateScheduleReturn
    \/ SummarizeSchedule

SpecSummary == InitMath /\ [][NextSummary]_vars

-----------------------------------------------------------------------------
(* src/share.js: createShareUrl and readShareStateFromUrl, with the URL and  *)
(* URLSearchParams objects they use                                          *)

\* Longest field value, in code units, that is shared.
MaxStringLength == 2

\* Code units outside ASCII: U+00E9, an unpaired high and an unpaired low
\* surrogate (together the pair of U+10000), and U+FFFD.
EAcute == "\\u00E9"
HighSurrogate == "\\uD800"
LowSurrogate == "\\uDC00"
ReplacementCharacter == "\\uFFFD"

IndexOf(s, c) ==
    IF \E i \in 1..Len(s) : s[i] = c
    THEN CHOOSE i \in 1..Len(s) : s[i] = c /\ \A j \in 1..(i - 1) : s[j] # c
    ELSE 0

StartsWith(s, prefix) ==
    Len(s) >= Len(prefix) /\ SubSeq(s, 1, Len(prefix)) = prefix

Drop(s, n) == SubSeq(s, n + 1, Len(s))

\* WebIDL USVString, the type of the arguments of URLSearchParams.set: every
\* unpaired surrogate becomes U+FFFD.
RECURSIVE USVString(_)
USVString(s) ==
    IF s = <<>> THEN <<>>
    ELSE IF StartsWith(s, <<HighSurrogate, LowSurrogate>>)
    THEN <<HighSurrogate, LowSurrogate>> \o USVString(Drop(s, 2))
    ELSE IF s[1] \in {HighSurrogate, LowSurrogate}
    THEN <<ReplacementCharacter>> \o USVString(Tail(s))
    ELSE <<s[1]>> \o USVString(Tail(s))

\* application/x-www-form-urlencoded serializing of one code point with "+"
\* left as it is
PercentEncodedKeepPlus(c) ==
    CASE c = " " -> <<"+">>
      [] c = "%" -> <<"%", "2", "5">>
      [] c = "&" -> <<"%", "2", "6">>
      [] c = "=" -> <<"%", "3", "D">>
      [] c = "#" -> <<"%", "2", "3">>
      [] c = EAcute -> <<"%", "C", "3", "%", "A", "9">>
      [] c = ReplacementCharacter -> <<"%", "E", "F", "%", "B", "F", "%", "B", "D">>
      [] OTHER -> <<c>>

\* application/x-www-form-urlencoded serializing of one code point: a space
\* is "+", ASCII letters, digits, "*", "-", "." and "_" stay, every other
\* code point is the %HH of each byte of its UTF-8 encoding.
PercentEncoded(c) ==
    CASE c = " " -> <<"+">>
      [] c = "+" -> <<"%", "2", "B">>
      [] c = "%" -> <<"%", "2", "5">>
      [] c = "&" -> <<"%", "2", "6">>
      [] c = "=" -> <<"%", "3", "D">>
      [] c = "#" -> <<"%", "2", "3">>
      [] c = EAcute -> <<"%", "C", "3", "%", "A", "9">>
      [] c = ReplacementCharacter -> <<"%", "E", "F", "%", "B", "F", "%", "B", "D">>
      [] OTHER -> <<c>>

\* the serializing of a USVString; a surrogate pair is one code point
RECURSIVE FormEncode(_)
FormEncode(s) ==
    IF s = <<>> THEN <<>>
    ELSE IF StartsWith(s, <<HighSurrogate, LowSurrogate>>)
    THEN <<"%", "F", "0", "%", "9", "0", "%", "8", "0", "%", "8", "0">>
         \o FormEncode(Drop(s, 2))
    ELSE PercentEncoded(s[1]) \o FormEncode(Tail(s))

\* the application/x-www-form-urlencoded serializer: name=value joined by "&"
RECURSIVE FormSerialize(_)
FormSerialize(list) ==
    IF list = <<>> THEN <<>>
    ELSE FormEncode(list[1].name) \o <<"=">> \o FormEncode(list[1].value)
         \o (IF Len(list) > 1 THEN <<"&">> ELSE <<>>) \o FormSerialize(Tail(list))

HexDigits ==
    {"0", "1", "2", "3", "4", "5", "6", "7", "8", "9", "A", "B", "C", "D", "E", "F"}

\* The ASCII character of the byte %hl.
AsciiCharacter(h, l) ==
    CASE <<h, l>> = <<"2", "0">> -> " "
      [] <<h, l>> = <<"2", "3">> -> "#"
      [] <<h, l>> = <<"2", "5">> -> "%"
      [] <<h, l>> = <<"2", "6">> -> "&"
      [] <<h, l>> = <<"2", "B">> -> "+"
      [] <<h, l>> = <<"2", "E">> -> "."
      [] <<h, l>> = <<"3", "5">> -> "5"
      [] <<h, l>> = <<"3", "D">> -> "="
      [] OTHER -> "\\x" \o h \o l

\* Percent-decoding followed by UTF-8 decoding without BOM: a %HH below 80 is
\* its ASCII character, the byte sequences of U+00E9, U+FFFD and U+10000 are
\* those code points, any other byte from 80 up is U+FFFD, and a "%" that no
\* two hex digits follow stays.
RECURSIVE PercentUtf8Decode(_)
PercentUtf8Decode(s) ==
    IF s = <<>> THEN <<>>
    ELSE IF StartsWith(s, <<"%", "C", "3", "%", "A", "9">>)
    THEN <<EAcute>> \o PercentUtf8Decode(Drop(s, 6))
    ELSE IF StartsWith(s, <<"%", "E", "F", "%", "B", "F", "%", "B", "D">>)
    THEN <<ReplacementCharacter>> \o PercentUtf8Decode(Drop(s, 9))
    ELSE IF StartsWith(s, <<"%", "F", "0", "%", "9", "0", "%", "8", "0", "%", "8", "0">>)
    THEN <<HighSurrogate, LowSurrogate>> \o PercentUtf8Decode(Drop(s, 12))
    ELSE IF s[1] = "%" /\ Len(s) >= 3 /\ s[2] \in HexDigits /\ s[3] \in HexDigits
    THEN (IF s[2] \in {"0", "1", "2", "3", "4", "5", "6", "7"}
          THEN <<AsciiCharacter(s[2], s[3])>>
          ELSE <<ReplacementCharacter>>) \o PercentUtf8Decode(Drop(s, 3))
    ELSE <<s[1]>> \o PercentUtf8Decode(Tail(s))

PlusToSpace(s) == [i \in 1..Len(s) |-> IF s[i] = "+" THEN " " ELSE s[i]]

\* the pieces of s between the separators c
RECURSIVE SplitOn(_, _)
SplitOn(s, c) ==
    IF IndexOf(s, c) = 0 THEN <<s>>
    ELSE <<SubSeq(s, 1, IndexOf(s, c) - 1)>> \o SplitOn(Drop(s, IndexOf(s, c)), c)

\* the name and the value of one piece, split at its first "="
FormPair(piece) ==
    LET at == IndexOf(piece, "=")
        name == IF at = 0 THEN piece ELSE SubSeq(piece, 1, at - 1)
        value == IF at = 0 THEN <<>> ELSE Drop(piece, at)
    IN [name |-> PercentUtf8Decode(PlusToSpace(name)),
        value |-> PercentUtf8Decode(PlusToSpace(value))]

\* the application/x-www-form-urlencoded parser: the list of a query string
RECURSIVE FormPairs(_)
FormPairs(pieces) ==
    IF pieces = <<>> THEN <<>>
    ELSE (IF pieces[1] = <<>> THEN <<>> ELSE <<FormPair(pieces[1])>>)
         \o FormPairs(Tail(pieces))

FormParse(query) == FormPairs(SplitOn(query, "&"))

\* new URL(value): the fragment starts after the first "#", the query after
\* the first "?" before it; what precedes them is kept as it is.  A URL
\* without "?" has a null query.
NewURL(value) ==
    LET hash == IndexOf(value.s, "#")
        beforeHash == IF hash = 0 THEN value.s ELSE SubSeq(value.s, 1, hash - 1)
        mark == IndexOf(beforeHash, "?")
    IN [base |-> IF mark = 0 THEN beforeHash ELSE SubSeq(beforeHash, 1, mark - 1),
        query |-> IF mark = 0 THEN NoString ELSE Str(Drop(beforeHash, mark)),
        fragment |-> IF hash = 0 THEN NoString ELSE Str(Drop(value.s, hash))]

\* url.toString()
Href(url) ==
    Str(url.base
        \o (IF url.query.k = "string" THEN <<"?">> \o url.query.s ELSE <<>>)
        \o (IF url.fragment.k = "string" THEN <<"#">> \o url.fragment.s ELSE <<>>))

\* url.searchParams: the list parsed from the query
SearchParams(url) == IF url.query.k = "string" THEN FormParse(url.query.s) ELSE <<>>

\* url.search = "": the query becomes null and the list empty
ClearSearch(url) == [url EXCEPT !.query = NoString]

\* list.set(name, value): the first pair of that name gets the value and the
\* others of that name go; without one the pair is appended
RECURSIVE SetInList(_, _, _, _)
SetInList(list, name, value, found) ==
    IF list = <<>>
    THEN IF found THEN <<>> ELSE <<[name |-> name, value |-> value]>>
    ELSE IF list[1].name = name
    THEN (IF found THEN <<>> ELSE <<[name |-> name, value |-> value]>>)
         \o SetInList(Tail(list), name, value, TRUE)
    ELSE <<list[1]>> \o SetInList(Tail(list), name, value, found)

\* url.searchParams.set(name, value): the list is updated and the query
\* becomes its serialization
SearchParamsSet(url, name, value) ==
    [url EXCEPT !.query =
        Str(FormSerialize(SetInList(SearchParams(url), USVString(name), USVString(value),
                                    FALSE)))]

\* searchParams.get(name): the value of the first pair of that name, or null
SearchParamsGet(list, name) ==
    IF \E i \in 1..Len(list) : list[i].name = name
    THEN Str(list[CHOOSE i \in 1..Len(list) :
                    list[i].name = name /\ \A j \in 1..(i - 1) : list[j].name # name].value)
    ELSE [k |-> "null", s |-> <<>>]

\* src/share.js lines 21-31
PARAM_KEYS ==
    [strategy |-> <<"strategy">>, initialDelayMs |-> <<"initialDelayMs">>,
     maxRetries |-> <<"maxRetries">>, maxDelayMs |-> <<"maxDelayMs">>,
     factor |-> <<"factor">>, incrementMs |-> <<"incrementMs">>, jitter |-> <<"jitter">>,
     displayMode |-> <<"displayMode">>, chartMode |-> <<"chartMode">>]

Word(w) == Str(<<w>>)

\* src/share.js lines 37-39
isStrategy(value) == value \in {Word("exponential"), Word("linear"), Word("fixed")}

\* src/backoff.js lines 211-213, of a string
isJitterTypeString(value) == value.k = "string" /\ Len(value.s) = 1 /\ isJitterType(value.s[1])

\* src/display.js line 5
DISPLAY_MODES == <<"ms", "s", "min", "h", "humanize">>

\* src/display.js lines 17-22
isDisplayMode(value) ==
    value.k = "string" /\ \E i \in 1..Len(DISPLAY_MODES) : value = Word(DISPLAY_MODES[i])

\* src/chartMode.js line 5
CHART_MODES == <<"delay", "cumulative">>

\* src/chartMode.js lines 13-18
isChartMode(value) ==
    value.k = "string" /\ \E i \in 1..Len(CHART_MODES) : value = Word(CHART_MODES[i])

\* src/share.js lines 45-48
readParam(searchParams, key) ==
    LET value == SearchParamsGet(searchParams, key)
    IN IF value.k = "null" THEN NoString ELSE value

\* src/share.js lines 59-86: the parameters in the order they are set, each
\* with the condition under which it is
ShareParams(state) ==
    << [key |-> PARAM_KEYS.strategy, set |-> isStrategy(state.strategy),
        value |-> state.strategy],
       [key |-> PARAM_KEYS.initialDelayMs, set |-> state.initialDelayMs.k = "string",
        value |-> state.initialDelayMs],
       [key |-> PARAM_KEYS.maxRetries, set |-> state.maxRetries.k = "string",
        value |-> state.maxRetries],
       [key |-> PARAM_KEYS.maxDelayMs, set |-> state.maxDelayMs.k = "string",
        value |-> state.maxDelayMs],
       [key |-> PARAM_KEYS.factor, set |-> state.factor.k = "string",
        value |-> state.factor],
       [key |-> PARAM_KEYS.incrementMs, set |-> state.incrementMs.k = "string",
        value |-> state.incrementMs],
       [key |-> PARAM_KEYS.jitter, set |-> isJitterTypeString(state.jitter),
        value |-> state.jitter],
       [key |-> PARAM_KEYS.displayMode, set |-> isDisplayMode(state.displayMode),
        value |-> state.displayMode],
       [key |-> PARAM_KEYS.chartMode, set |-> isChartMode(state.chartMode),
        value |-> state.chartMode] >>

RECURSIVE SetParams(_, _, _)
SetParams(url, params, n) ==
    IF n = 0 THEN url
    ELSE LET before == SetParams(url, params, n - 1)
         IN IF params[n].set
            THEN SearchParamsSet(before, params[n].key, params[n].value.s)
            ELSE before

\* src/share.js lines 55-89
createShareUrl(base, state) ==
    Href(SetParams(ClearSearch(NewURL(base)), ShareParams(state), Len(ShareParams(state))))

\* src/share.js lines 95-124
readShareStateFromUrl(urlValue) ==
    LET searchParams == SearchParams(NewURL(urlValue))
        strategy == readParam(searchParams, PARAM_KEYS.strategy)
        jitter == readParam(searchParams, PARAM_KEYS.jitter)
        displayMode == readParam(searchParams, PARAM_KEYS.displayMode)
        chartMode == readParam(searchParams, PARAM_KEYS.chartMode)
    IN ShareState(IF isStrategy(strategy) THEN strategy ELSE NoString,
                  readParam(searchParams, PARAM_KEYS.initialDelayMs),
                  readParam(searchParams, PARAM_KEYS.maxRetries),
                  readParam(searchParams, PARAM_KEYS.maxDelayMs),
                  readParam(searchParams, PARAM_KEYS.factor),
                  readParam(searchParams, PARAM_KEYS.incrementMs),
                  IF isJitterTypeString(jitter) THEN jitter ELSE NoString,
                  IF isDisplayMode(displayMode) THEN displayMode ELSE NoString,
                  IF isChartMode(chartMode) THEN chartMode ELSE NoString)

CreateShareUrl ==
    /\ shareUrl' = createShareUrl(baseUrl, shareState)
    /\ parsedState' = NotParsed
    /\ UNCHANGED <<baseUrl, shareState, coreVars, appVars, pageVars>>

ReadShareStateFromUrl ==
    /\ shareUrl.k = "string"
    /\ parsedState' = [called |-> TRUE, state |-> readShareStateFromUrl(shareUrl)]
    /\ UNCHANGED <<baseUrl, shareState, shareUrl, coreVars, appVars, pageVars>>

\* The code units of the field values that are shared.
ValueCharacters ==
    {"5", ".", " ", "+", "%", "&", "=", "#", EAcute, HighSurrogate, LowSurrogate,
     ReplacementCharacter}

Strings == UNION { [1..n -> ValueCharacters] : n \in 0..MaxStringLength }

FieldNames == {"initialDelayMs", "maxRetries", "maxDelayMs", "factor", "incrementMs"}

\* A usual state: the cap is blank.
UsualShareState ==
    ShareState(Word("linear"), Word("250"), Word("7"), Str(<<>>), Word("2"), Word("400"),
               Word("equal"), Word("humanize"), Word("cumulative"))

\* The states that are shared: the usual one with any string in one field,
\* every combination of recognized modes, and states with an unrecognized or
\* missing member.
ShareStates ==
    { [UsualShareState EXCEPT ![field] = Str(s)] : field \in FieldNames, s \in Strings }
    \cup
    { [UsualShareState EXCEPT !.strategy = Word(strategy), !.jitter = Word(jitter),
                              !.displayMode = Word(displayMode),
                              !.chartMode = Word(chartMode)] :
        strategy \in {"exponential", "linear", "fixed"},
        jitter \in {"none", "equal", "full"},
        displayMode \in {DISPLAY_MODES[i] : i \in 1..Len(DISPLAY_MODES)},
        chartMode \in {CHART_MODES[i] : i \in 1..Len(CHART_MODES)} }
    \cup
    { [UsualShareState EXCEPT ![field] = value] :
        field \in DOMAIN UsualShareState, value \in {NoString, Word("unknown")} }

\* Base URLs: bare, with a fragment, and with a query of its own.
BaseUrls ==
    { ExampleUrl,
      Str(<<"https://example.com/backoff", "#", "chart">>),
      Str(<<"https://example.com/", "?", "maxRetries", "=", "9", "&", "page", "=", "1",
            "#", "chart">>) }

InitShare ==
    /\ InitCore({NullConfig})
    /\ InitShareWith(BaseUrls, ShareStates)
    /\ AppUnused
    /\ PageUnused

NextShare ==
    \/ CreateShareUrl
    \/ ReadShareStateFromUrl

SpecShare == InitShare /\ [][NextShare]_vars

-----------------------------------------------------------------------------
(* src/main.js: recompute, with the functions of src/ui.js it renders with   *)

\* src/main.js line 84
MAX_RETRIES_WARNING_THRESHOLD == 300

\* generateSchedule(config) as one call: the points of retries 1..n, each
\* built from the totals of the point before it (lines 326-361)
RECURSIVE schedulePoints(_, _, _)
schedulePoints(c, jitter, n) ==
    IF n = 0 THEN <<>>
    ELSE LET before == schedulePoints(c, jitter, n - 1)
             rawDelayMs == RawDelay(c, n)
             range == DelayRange(c, rawDelayMs, jitter)
             delayMs == DelayOf(range)
             total == IF n = 1 THEN InitialTotal ELSE before[n - 1].cumulativeDelayMs
             totalMin == IF n = 1 THEN InitialTotal ELSE before[n - 1].cumulativeMinDelayMs
             totalMax == IF n = 1 THEN InitialTotal ELSE before[n - 1].cumulativeMaxDelayMs
         IN Append(before,
                   RetryPoint(n, rawDelayMs, range, delayMs, Add(total, delayMs),
                              Add(totalMin, range.minDelayMs),
                              Add(totalMax, range.maxDelayMs)))

\* src/backoff.js lines 318-364
generateSchedule(c) ==
    LET errors == validateConfig(c) IN
    IF HasErrors(errors)
    THEN Thrown(InvalidConfigurationMessage(errors))
    ELSE Returned(schedulePoints(c, resolveJitterType(c.jitter), c.maxRetries.v \div 4))

\* String.prototype.trim of the texts a field holds
Trim(text) ==
    CASE text = " " -> ""
      [] text = " 5 " -> "5"
      [] OTHER -> text

\* Number(text) of a trimmed, non-empty text
NumberOf(text) ==
    CASE text = "0" -> Num(0)
      [] text = "1" -> Num(1)
      [] text = "2" -> Num(2)
      [] text = "5" -> Num(5)
      [] text = "-1" -> Num(-1)
      [] text = "1.5" -> Quarters(6)
      [] OTHER -> NaN

\* src/ui.js lines 50-59
toNumber(value) == IF Trim(value) = "" THEN NaN ELSE NumberOf(Trim(value))

\* src/ui.js lines 116-130
readConfigFromInputs(form) ==
    LET maxDelayRaw == Trim(form.maxDelayMs)
    IN Config(form.strategy,
              toNumber(form.initialDelayMs),
              toNumber(form.maxRetries),
              IF maxDelayRaw = "" THEN Null ELSE toNumber(maxDelayRaw),
              toNumber(form.factor),
              toNumber(form.incrementMs),
              resolveJitterType(form.jitter))

\* src/display.js lines 28-30
resolveDisplayMode(value) ==
    IF \E i \in 1..Len(DISPLAY_MODES) : value = DISPLAY_MODES[i] THEN value ELSE "humanize"

\* src/display.js lines 35-50
unitLabel(displayMode) ==
    IF displayMode \in {"ms", "s", "min", "h"} THEN displayMode
    ELSE IF displayMode = "humanize" THEN "human-readable" ELSE "ms"

\* src/chartMode.js lines 24-26
resolveChartMode(value) ==
    IF \E i \in 1..Len(CHART_MODES) : value = CHART_MODES[i] THEN value ELSE "delay"

\* src/chartSeriesMode.js lines 24-26
resolveChartSeriesMode(value) ==
    IF value \in {"expected", "simulated"} THEN value ELSE "expected"

\* src/main.js lines 268-276
jitterLabel(jitter) ==
    IF jitter = "equal" THEN "Equal" ELSE IF jitter = "full" THEN "Full" ELSE "None"

\* src/display.js lines 114-134: the text of a duration is "-" for a value
\* that is not finite, and else the value in the unit of the display mode
formatDuration(valueMs, displayMode) ==
    IF ~isFiniteNumber(valueMs) THEN [amount |-> Null, unit |-> "-"]
    ELSE [amount |-> valueMs, unit |-> resolveDisplayMode(displayMode)]

\* src/ui.js lines 160-185: the last error of a field is its message
renderValidation(errors) ==
    LET message(field) ==
            IF \E i \in 1..Len(errors) : errors[i].field = field
            THEN errors[CHOOSE i \in 1..Len(errors) :
                           /\ errors[i].field = field
                           /\ \A j \in (i + 1)..Len(errors) : errors[j].field # field].message
            ELSE ""
    IN [text |-> [field \in FieldIds |-> message(field)],
        ariaInvalid |-> [field \in FieldIds |-> message(field) # ""],
        warning |-> FALSE]

\* src/main.js lines 504-522, on the messages renderValidation left
renderMaxRetriesWarning(c, errors, messages) ==
    IF \E i \in 1..Len(errors) : errors[i].field = "maxRetries"
    THEN messages
    ELSE IF \/ ~NumberIsInteger(c.maxRetries)
            \/ LessEq(c.maxRetries, Num(MAX_RETRIES_WARNING_THRESHOLD))
    THEN [messages EXCEPT !.text.maxRetries = ""]
    ELSE [messages EXCEPT !.text.maxRetries =
                               "Large schedules above 300 retries may render slowly.",
                          !.warning = TRUE]

Rendered(content) == [rendered |-> TRUE, content |-> content]

\* src/ui.js lines 298-321
renderDelayTableHeaders(displayMode, jitter) ==
    LET unit == unitLabel(resolveDisplayMode(displayMode))
    IN IF resolveJitterType(jitter) = "none"
       THEN Rendered(<<"Delay (" \o unit \o ")", "Cumulative Delay (" \o unit \o ")">>)
       ELSE Rendered(<<"Min Delay (" \o unit \o ")", "Expected Delay (" \o unit \o ")",
                       "Max Delay (" \o unit \o ")", "Cumulative Delay (" \o unit \o ")">>)

\* src/ui.js lines 200-208
clearScheduleTableForJitter(message, jitter) ==
    Rendered(<< <<[colSpan |-> IF jitter = "none" THEN 3 ELSE 5, text |-> message]>> >>)

\* src/ui.js lines 223-265
renderScheduleTable(points, displayMode, jitter) ==
    IF Len(points) = 0
    THEN clearScheduleTableForJitter("No retries configured.", jitter)
    ELSE Rendered([i \in 1..Len(points) |->
            LET point == points[i]
                cell(valueMs) == formatDuration(valueMs, displayMode)
            IN IF resolveJitterType(jitter) = "none"
               THEN <<point.retry, cell(point.delayMs), cell(point.cumulativeDelayMs)>>
               ELSE <<point.retry, cell(point.minDelayMs), cell(point.expectedDelayMs),
                      cell(point.maxDelayMs), cell(point.cumulativeDelayMs)>>])

\* src/ui.js lines 270-274
resetSummary == Rendered([totalRetries |-> "-", finalDelayMs |-> "-", totalDelayMs |-> "-"])

\* src/ui.js lines 281-286
renderSummary(result, displayMode) ==
    Rendered([totalRetries |-> result.totalRetries,
              finalDelayMs |-> formatDuration(result.finalDelayMs, displayMode),
              totalDelayMs |-> formatDuration(result.totalDelayMs, displayMode)])

\* src/main.js lines 331-341: JSON.stringify writes a number that is not
\* finite as null
simulationCacheKey(c) ==
    LET json(value) == IF value.k \in {"inf", "nan"} THEN Null ELSE value
    IN [c EXCEPT !.initialDelayMs = json(@), !.maxRetries = json(@),
                 !.maxDelayMs = json(@), !.factor = json(@), !.incrementMs = json(@)]

\* src/main.js lines 353-369: one draw per point, Math.random() being 0 or a
\* value that gives the point's expected delay; a point without a range has
\* no draw
RECURSIVE Simulations(_)
Simulations(points) ==
    IF points = <<>> THEN {<<>>}
    ELSE LET point == points[Len(points)]
             span == Add(point.maxDelayMs, Mul(Num(-1), point.minDelayMs))
             draws == IF LessEq(span, Num(0)) THEN {point.delayMs}
                      ELSE IF isFiniteNumber(span)
                      THEN {point.minDelayMs, point.delayMs}
                      ELSE {Add(point.minDelayMs, Mul(Num(0), span)),
                            Add(point.minDelayMs, span)}
         IN { Append(before,
                     [simulatedDelayMs |-> draw,
                      cumulativeSimulatedDelayMs |->
                          Add(IF before = <<>> THEN Num(0)
                              ELSE before[Len(before)].cumulativeSimulatedDelayMs, draw)]) :
                before \in Simulations(SubSeq(points, 1, Len(points) - 1)),
                draw \in draws }

\* a cache that is never taken as it is
CacheIsAlwaysStale(simulationKey, points) == TRUE

\* src/main.js line 661
CacheIsStale(simulationKey, points) ==
    \/ simulationKey # cachedSimulation.key
    \/ Len(cachedSimulation.points) # Len(points)

\* src/main.js lines 665-670: each point with the simulated delay cached for it
chartPoints(points, simulation) ==
    [i \in 1..Len(points) |->
        [point |-> points[i],
         simulatedDelayMs |-> IF i <= Len(simulation) THEN simulation[i].simulatedDelayMs
                              ELSE points[i].delayMs,
         cumulativeSimulatedDelayMs |->
             IF i <= Len(simulation) THEN simulation[i].cumulativeSimulatedDelayMs
             ELSE points[i].cumulativeDelayMs]]

\* an invalid recompute that empties the table and the summary
ClearRendered ==
    view' = [view EXCEPT !.table = clearScheduleTableForJitter("Invalid input.", "none"),
                         !.summary = resetSummary]

\* src/main.js lines 652-654: the return before anything is rendered
KeepRendered == UNCHANGED view

\* src/main.js lines 626-682; the schedule and the summary it computes are
\* local to it and end in what it renders
Recompute ==
    /\ pc = "idle"
    /\ LET displayMode == resolveDisplayMode(inputs.displayMode)
           chartMode == resolveChartMode(inputs.chartMode)
           chartSeriesMode == resolveChartSeriesMode(inputs.chartSeriesMode)
           jitter == resolveJitterType(inputs.jitter)
           read == readConfigFromInputs(inputs)
           errors == validateConfig(read)
       IN /\ controls' = [factorGroupHidden |-> inputs.strategy # "exponential",
                          incrementGroupHidden |-> inputs.strategy # "linear",
                          jitterTriggerValue |-> jitterLabel(jitter),
                          chartSeriesReserved |-> jitter = "none"]
          /\ config' = read
          /\ validation' = [called |-> TRUE, errors |-> errors]
          /\ fieldMessages' = renderMaxRetriesWarning(read, errors, renderValidation(errors))
          /\ IF HasErrors(errors)
             THEN /\ KeepRendered
                  /\ UNCHANGED <<cachedSimulation, hasWorkingChart, lastValidView>>
             ELSE LET points == generateSchedule(read).points
                      result == summarizeSchedule(ArrayOf(points))
                  IN \E simulation \in Simulations(points), updated \in BOOLEAN :
                       /\ cachedSimulation' =
                             IF CacheIsStale(simulationCacheKey(read), points)
                             THEN [key |-> simulationCacheKey(read),
                                   points |-> simulation]
                             ELSE cachedSimulation
                       /\ hasWorkingChart' = (hasWorkingChart /\ updated)
                       /\ view' =
                             [headers |-> renderDelayTableHeaders(displayMode, jitter),
                              chart |->
                                 IF hasWorkingChart'
                                 THEN Rendered(
                                        [points |-> chartPoints(points,
                                                       cachedSimulation'.points),
                                         jitterType |-> jitter,
                                         chartSeriesMode |-> chartSeriesMode,
                                         displayMode |-> displayMode,
                                         chartMode |-> chartMode])
                                 ELSE view.chart,
                              table |-> renderScheduleTable(points, displayMode, jitter),
                              summary |-> renderSummary(result, displayMode)]
                       /\ lastValidView' = view'
    /\ UNCHANGED <<inputs, pc, genLocals, explained, shareVars, outcome, previous,
                   given, summary, pageVars>>

\* The values the user gives the form controls.
InputChoices ==
    [strategy |-> {"exponential", "linear"},
     initialDelayMs |-> {"1", "-1"},
     maxRetries |-> {"2", ""},
     maxDelayMs |-> {""},
     factor |-> {"2"},
     incrementMs |-> {"1"},
     jitter |-> {"none", "equal"},
     displayMode |-> {"ms", "s"},
     chartMode |-> {"delay"},
     chartSeriesMode |-> {"expected"}]

\* The user changes one control; the recompute it asks for comes later.
ChangeInput ==
    /\ pc = "idle"
    /\ \E field \in DOMAIN InputChoices :
         \E value \in InputChoices[field] \ {inputs[field]} :
            inputs' = [inputs EXCEPT ![field] = value]
    /\ UNCHANGED <<coreVars, shareVars, controls, fieldMessages, view, cachedSimulation,
                   hasWorkingChart, lastValidView, pageVars>>

InitMain ==
    /\ InitCore({NullConfig})
    /\ InitShareWith({ExampleUrl}, {EmptyShareState})
    /\ InitApp
    /\ PageUnused

NextMain ==
    \/ ChangeInput
    \/ Recompute

SpecMain == InitMain /\ [][NextMain]_vars

-----------------------------------------------------------------------------
(* src/ui.js: the chart selection state *)

\* The largest index and the largest point count the callers pass.
MaxIndex == 3

\* Math.max, as MathMin is Math.min
MathMax(a, b) ==
    IF a.k = "nan" \/ b.k = "nan" THEN NaN
    ELSE IF Less(a, b) THEN b ELSE a

\* every integer is an index
normalizeIndexAnyInteger(value) ==
    IF ~NumberIsInteger(value) THEN Null ELSE value

\* src/ui.js lines 888-893
normalizeIndex(value) ==
    IF ~NumberIsInteger(value) \/ Less(value, Num(0)) THEN Null ELSE value

\* src/ui.js lines 911-917
updateSelectionForPointerMove(state, hoverIndex) ==
    [state EXCEPT !.isPointerInside = TRUE, !.hoverIndex = normalizeIndex(hoverIndex)]

\* src/ui.js lines 923-929
updateSelectionForPointerLeave(state) ==
    [state EXCEPT !.isPointerInside = FALSE, !.hoverIndex = Null]

\* src/ui.js lines 936-946
togglePinnedSelection(state, index) ==
    LET normalizedIndex == normalizeIndex(index) IN
    IF normalizedIndex = Null THEN state
    ELSE [state EXCEPT !.pinnedIndex =
                           IF state.pinnedIndex = normalizedIndex THEN Null
                           ELSE normalizedIndex]

\* src/ui.js lines 952-961
clearPinnedSelection(state) ==
    IF state.pinnedIndex = Null THEN state ELSE [state EXCEPT !.pinnedIndex = Null]

\* an index above the last one is dropped
ClampedOrDropped(index, maxIndex) ==
    IF index = Null \/ Less(maxIndex, index) THEN Null ELSE MathMax(index, Num(0))

\* src/ui.js lines 985-989: Math.min(Math.max(index, 0), maxIndex)
Clamped(index, maxIndex) ==
    IF index = Null THEN Null ELSE MathMin(MathMax(index, Num(0)), maxIndex)

\* src/ui.js lines 968-997
reconcileSelectionWithPointCount(state, pointCount) ==
    LET normalizedCount ==
            IF NumberIsInteger(pointCount) /\ Less(Num(0), pointCount) THEN pointCount
            ELSE Num(0)
        maxIndex == Add(normalizedCount, Num(-1))
    IN IF normalizedCount = Num(0)
       THEN [state EXCEPT !.hoverIndex = Null, !.pinnedIndex = Null]
       ELSE [state EXCEPT !.hoverIndex = Clamped(state.hoverIndex, maxIndex),
                          !.pinnedIndex = Clamped(state.pinnedIndex, maxIndex)]

\* the hover index comes first
activeSelectionIndexHoverFirst(state) ==
    IF state.isPointerInside /\ state.hoverIndex # Null THEN state.hoverIndex
    ELSE state.pinnedIndex

\* src/ui.js lines 1003-1013
activeSelectionIndex(state) ==
    IF state.pinnedIndex # Null THEN state.pinnedIndex
    ELSE IF state.isPointerInside /\ state.hoverIndex # Null THEN state.hoverIndex
    ELSE Null

\* The indexes a caller passes: those of the points, one beyond them, and
\* values that are no index.
IndexValues ==
    {Num(i) : i \in 0..MaxIndex + 1} \cup {Num(-1), Quarters(5), NaN, Null, Undefined}

\* The point counts a caller passes.
PointCounts ==
    {Num(n) : n \in 0..MaxIndex} \cup {Num(-1), Quarters(6), NaN, Infinity, Undefined}

SelectionCalled(op, argument, returned) ==
    selectionCall' = [op |-> op, state |-> selection, argument |-> argument,
                      returned |-> returned]

SelectionUpdated(op, argument, returned) ==
    /\ selection' = returned
    /\ SelectionCalled(op, argument, returned)
    /\ UNCHANGED <<coreVars, shareVars, appVars, typesetVars, debounceVars>>

UpdateSelectionForPointerMove ==
    \E hoverIndex \in IndexValues :
       SelectionUpdated("updateSelectionForPointerMove", hoverIndex,
                        updateSelectionForPointerMove(selection, hoverIndex))

UpdateSelectionForPointerLeave ==
    SelectionUpdated("updateSelectionForPointerLeave", Undefined,
                     updateSelectionForPointerLeave(selection))

TogglePinnedSelection ==
    \E index \in IndexValues :
       SelectionUpdated("togglePinnedSelection", index,
                        togglePinnedSelection(selection, index))

ClearPinnedSelection ==
    SelectionUpdated("clearPinnedSelection", Undefined, clearPinnedSelection(selection))

ReconcileSelectionWithPointCount ==
    \E pointCount \in PointCounts :
       SelectionUpdated("reconcileSelectionWithPointCount", pointCount,
                        reconcileSelectionWithPointCount(selection, pointCount))

ActiveSelectionIndex ==
    /\ SelectionCalled("activeSelectionIndex", Undefined, activeSelectionIndex(selection))
    /\ UNCHANGED <<selection, coreVars, shareVars, appVars, typesetVars, debounceVars>>

InitSelectionSpec ==
    /\ InitCore({NullConfig})
    /\ InitShareWith({ExampleUrl}, {EmptyShareState})
    /\ AppUnused
    /\ PageUnused

NextSelection ==
    \/ UpdateSelectionForPointerMove
    \/ UpdateSelectionForPointerLeave
    \/ TogglePinnedSelection
    \/ ClearPinnedSelection
    \/ ReconcileSelectionWithPointCount
    \/ ActiveSelectionIndex

SpecSelection == InitSelectionSpec /\ [][NextSelection]_vars

-----------------------------------------------------------------------------
(* src/ui.js: queueMathTypeset *)

\* The number of queueMathTypeset calls of a behaviour.
MaxTypesetCalls == 4

Containers == {"chart-math", "help-math"}

\* A link of the chain is the promise that .then(...).catch(...) returns: it
\* is queued until its callback is run, awaiting while the callback waits
\* for mathJax.typesetPromise, and settled after that.
Link(status, target) == [status |-> status, target |-> target]

\* a callback that waits for nothing
StartsAtOnce(i) == TRUE

\* src/ui.js lines 29-30: the callback of a link is run when the promise it
\* was chained to, the link before it, has settled
StartsAfterPrevious(i) ==
    IF i = 1 THEN TRUE ELSE mathTypesetQueue[i - 1].status = "settled"

\* src/ui.js lines 22-48, the synchronous part: the call itself
QueueMathTypeset ==
    /\ Len(mathTypesetQueue) < MaxTypesetCalls
    /\ \E container \in Containers :
         IF ~mathJax
         THEN UNCHANGED <<pendingMathTypesetContainer, mathTypesetQueue>>
         ELSE /\ pendingMathTypesetContainer' = Str(<<container>>)
              /\ mathTypesetQueue' = Append(mathTypesetQueue, Link("queued", Null))
    /\ UNCHANGED <<mathJax, coreVars, shareVars, appVars, selectionVars, debounceVars>>

\* src/ui.js lines 30-43: the callback of link i up to its await; typesetClear
\* or typesetPromise may throw, which the catch of the link takes
RunTypesetCallback ==
    /\ \E i \in 1..Len(mathTypesetQueue) :
         /\ mathTypesetQueue[i].status = "queued"
         /\ StartsAfterPrevious(i)
         /\ IF pendingMathTypesetContainer = Null
            THEN /\ mathTypesetQueue' =
                       [mathTypesetQueue EXCEPT ![i] = Link("settled", Null)]
                 /\ UNCHANGED pendingMathTypesetContainer
            ELSE /\ pendingMathTypesetContainer' = Null
                 /\ \E thrown \in BOOLEAN :
                      mathTypesetQueue' =
                         [mathTypesetQueue EXCEPT ![i] =
                             Link(IF thrown THEN "settled" ELSE "awaiting",
                                  pendingMathTypesetContainer)]
    /\ UNCHANGED <<mathJax, coreVars, shareVars, appVars, selectionVars, debounceVars>>

\* src/ui.js lines 43-47: the promise of typesetPromise is fulfilled or
\* rejected, and the link settles either way
TypesetPromiseSettles ==
    /\ \E i \in 1..Len(mathTypesetQueue) :
         /\ mathTypesetQueue[i].status = "awaiting"
         /\ mathTypesetQueue' =
               [mathTypesetQueue EXCEPT ![i] = Link("settled", mathTypesetQueue[i].target)]
    /\ UNCHANGED <<mathJax, pendingMathTypesetContainer, coreVars, shareVars, appVars,
                   selectionVars, debounceVars>>

\* MathJax is loaded after the page
MathJaxLoads ==
    /\ ~mathJax
    /\ mathJax' = TRUE
    /\ UNCHANGED <<pendingMathTypesetContainer, mathTypesetQueue, coreVars, shareVars,
                   appVars, selectionVars, debounceVars>>

InitTypesetSpec ==
    /\ InitCore({NullConfig})
    /\ InitShareWith({ExampleUrl}, {EmptyShareState})
    /\ AppUnused
    /\ InitSelection
    /\ InitTypeset
    /\ mathJax \in BOOLEAN
    /\ InitDebounce

NextTypeset ==
    \/ QueueMathTypeset
    \/ RunTypesetCallback
    \/ TypesetPromiseSettles
    \/ MathJaxLoads

SpecTypeset == InitTypesetSpec /\ [][NextTypeset]_vars

-----------------------------------------------------------------------------
(* src/main.js: debounce *)

\* waitMs, in clock units
Wait == 2

\* The calls of a behaviour, and the time after which none is made.
MaxDebounceCalls == 3
MaxTime == 6

\* The arguments the calls pass on.
CallArguments == {"input", "change"}

\* a clearTimeout that clears nothing
ClearNothing(id) == timers

\* src/main.js lines 28-30: clearTimeout(timeoutId) when timeoutId is not
\* null; the id of a timer that has run clears nothing
ClearTimeout(id) == {timer \in timers : id = Null \/ timer.id # id.v}

\* src/main.js lines 27-34: a call of the debounced function
DebouncedCall ==
    /\ Len(debouncedCalls) < MaxDebounceCalls
    /\ clock + Wait <= MaxTime
    /\ \E args \in CallArguments :
         LET id == Len(debouncedCalls) + 1 IN
         /\ timers' = ClearTimeout(timeoutId)
                         \cup {[id |-> id, due |-> clock + Wait, args |-> args]}
         /\ timeoutId' = [k |-> "num", v |-> id]
         /\ debouncedCalls' = Append(debouncedCalls, [at |-> clock, args |-> args])
    /\ UNCHANGED <<clock, fnRuns, coreVars, shareVars, appVars, selectionVars, typesetVars>>

\* src/main.js lines 31-33: the timer's callback runs fn(...args); the event
\* loop runs it when waitMs has passed, or later
TimerRuns ==
    /\ \E timer \in timers :
         /\ timer.due <= clock
         /\ timers' = timers \ {timer}
         /\ fnRuns' = Append(fnRuns, [at |-> clock, args |-> timer.args,
                                      calls |-> Len(debouncedCalls)])
    /\ UNCHANGED <<clock, timeoutId, debouncedCalls, coreVars, shareVars, appVars,
                   selectionVars, typesetVars>>

\* Time passes.
Tick ==
    /\ clock < MaxTime
    /\ clock' = clock + 1
    /\ UNCHANGED <<timeoutId, timers, debouncedCalls, fnRuns, coreVars, shareVars, appVars,
                   selectionVars, typesetVars>>

InitDebounceSpec ==
    /\ InitCore({NullConfig})
    /\ InitShareWith({ExampleUrl}, {EmptyShareState})
    /\ AppUnused
    /\ PageUnused

NextDebounce ==
    \/ DebouncedCall
    \/ TimerRuns
    \/ Tick

\* Time passes and a timer that is due is run in the end.
SpecDebounce ==
    /\ InitDebounceSpec
    /\ [][NextDebounce]_vars
    /\ WF_vars(Tick)
    /\ WF_vars(TimerRuns)

-----------------------------------------------------------------------------
(* Properties of generateSchedule.  Equality of two values is sameness of    *)
(* value (NaN is the same value as NaN, as in assert.deepStrictEqual);      *)
(* an order a <= b is JavaScript's comparison, false when either is NaN.    *)

Accepted(c) == validateConfig(c) = <<>>

\* C1: for every accepted configuration generateSchedule returns exactly
\* maxRetries points, the point at position i has retry = i, and an accepted
\* configuration (maxRetries = 0 included) never ends in an error.
C1_LengthIsMaxRetries ==
    /\ outcome.status = "returned" =>
          /\ Num(Len(outcome.points)) = config.maxRetries
          /\ \A i \in 1..Len(outcome.points) : outcome.points[i].retry = i
    /\ (Accepted(config) /\ outcome.status # "none") => outcome.status = "returned"
    /\ (Accepted(config) /\ config.maxRetries = Num(0) /\ outcome.status # "none")
          => outcome = Returned(<<>>)

C1_Witness ==
    /\ outcome.status = "returned"
    /\ Len(outcome.points) = MaxRunRetries
    /\ outcome.points[MaxRunRetries].retry = MaxRunRetries

\* The exact n-th power of the integer b.
RECURSIVE IntPow(_, _)
IntPow(b, n) == IF n = 0 THEN 1 ELSE b * IntPow(b, n - 1)

\* The strategy formula of retry r over the reals, in quarter milliseconds, as the
\* number it is in binary64.
FormulaValue(c, r) ==
    IF c.strategy = "exponential"
    THEN Overflow((c.initialDelayMs.v * IntPow(c.factor.v, r - 1)) \div IntPow(4, r - 1))
    ELSE IF c.strategy = "linear"
    THEN Overflow(c.initialDelayMs.v + (r - 1) * c.incrementMs.v)
    ELSE c.initialDelayMs

\* C2: the rawDelayMs of point r is the strategy formula without any cap:
\* initialDelayMs * factor^(r-1), initialDelayMs + (r-1)*incrementMs, or
\* initialDelayMs; retry 1's rawDelayMs is initialDelayMs.
C2_RawDelayIsFormula ==
    outcome.status = "returned" =>
        /\ \A r \in 1..Len(outcome.points) :
              outcome.points[r].rawDelayMs = FormulaValue(config, r)
        /\ Len(outcome.points) >= 1 => outcome.points[1].rawDelayMs = config.initialDelayMs

\* C3: with a cap set, every point's delayMs is at most maxDelayMs.
C3_DelayWithinCap ==
    (outcome.status = "returned" /\ config.maxDelayMs # Null) =>
        \A r \in 1..Len(outcome.points) :
            LessEq(outcome.points[r].delayMs, config.maxDelayMs)

\* The capped value c of a point: min(rawDelayMs, maxDelayMs), rawDelayMs without a cap.
CappedOf(point) ==
    IF config.maxDelayMs = Null THEN point.rawDelayMs
    ELSE MathMin(point.rawDelayMs, config.maxDelayMs)

\* C4: every point's jitter range is computed from its capped value c: none or
\* absent gives min = expected = max = delay = c; equal gives c/2, 0.75*c, c;
\* full gives 0, c/2, c; delayMs is expectedDelayMs in every mode.
C4_JitterRangeFromCapped ==
    outcome.status = "returned" =>
        \A r \in 1..Len(outcome.points) :
            LET point == outcome.points[r]
                c == CappedOf(point)
            IN /\ point.delayMs = point.expectedDelayMs
               /\ point.maxDelayMs = c
               /\ config.jitter \in {"none", "undefined"} =>
                     /\ point.minDelayMs = c
                     /\ point.expectedDelayMs = c
               /\ config.jitter = "equal" =>
                     /\ point.minDelayMs = Mul(c, Quarters(2))
                     /\ point.expectedDelayMs = Mul(c, Quarters(3))
               /\ config.jitter = "full" =>
                     /\ point.minDelayMs = Num(0)
                     /\ point.expectedDelayMs = Mul(c, Quarters(2))

\* A returned point whose raw delay lies above the cap, under equal jitter.
C4_Witness ==
    /\ outcome.status = "returned"
    /\ config.jitter = "equal"
    /\ config.maxDelayMs = Num(5)
    /\ \E r \in 1..Len(outcome.points) :
          /\ outcome.points[r].rawDelayMs = Num(9)
          /\ outcome.points[r].minDelayMs = Quarters(10)
          /\ outcome.points[r].expectedDelayMs = Quarters(15)
          /\ outcome.points[r].maxDelayMs = Num(5)

\* values[1] + ... + values[n], added from 0 in ascending order
RECURSIVE SumUpTo(_, _)
SumUpTo(values, n) == IF n = 0 THEN Num(0) ELSE Add(SumUpTo(values, n - 1), values[n])

\* C5: the three running totals of point r are the sums of delayMs, minDelayMs
\* and maxDelayMs over points 1..r.
C5_CumulativeAreSums ==
    outcome.status = "returned" =>
        LET points == outcome.points
            delays == [i \in 1..Len(points) |-> points[i].delayMs]
            mins == [i \in 1..Len(points) |-> points[i].minDelayMs]
            maxs == [i \in 1..Len(points) |-> points[i].maxDelayMs]
        IN \A r \in 1..Len(points) :
              /\ points[r].cumulativeDelayMs = SumUpTo(delays, r)
              /\ points[r].cumulativeMinDelayMs = SumUpTo(mins, r)
              /\ points[r].cumulativeMaxDelayMs = SumUpTo(maxs, r)

\* Three points under equal jitter whose three totals differ.
C5_Witness ==
    /\ outcome.status = "returned"
    /\ Len(outcome.points) >= 3
    /\ outcome.points[3].cumulativeMinDelayMs = Quarters(18)
    /\ outcome.points[3].cumulativeDelayMs = Quarters(27)
    /\ outcome.points[3].cumulativeMaxDelayMs = Num(9)

\* C6: cumulativeDelayMs never decreases from one point to the next, every
\* delayMs being non-negative.
C6_CumulativeNonDecreasing ==
    outcome.status = "returned" =>
        /\ \A r \in 1..Len(outcome.points) : LessEq(Num(0), outcome.points[r].delayMs)
        /\ \A r \in 1..(Len(outcome.points) - 1) :
              LessEq(outcome.points[r].cumulativeDelayMs,
                     outcome.points[r + 1].cumulativeDelayMs)

\* C7: two calls of generateSchedule with the same configuration end the same
\* way, with equal points field by field.
C7_SameResultTwice ==
    (outcome.status # "none" /\ previous.status # "none") => outcome = previous

\* Two completed calls that returned points with a positive running total.
C7_Witness ==
    /\ outcome.status = "returned"
    /\ previous.status = "returned"
    /\ Len(outcome.points) >= 2
    /\ Less(Num(0), outcome.points[2].cumulativeMinDelayMs)

\* C8: generateSchedule throws "Invalid configuration: ..." exactly when
\* validateConfig(config) is non-empty, returns no point then, builds no
\* schedule for such a configuration, and never throws when the list is empty.
C8_ThrowsIffInvalid ==
    /\ outcome.status # "none" =>
          (outcome.status = "thrown" <=> validateConfig(config) # <<>>)
    /\ outcome.status = "thrown" =>
          /\ outcome.points = <<>>
          /\ outcome.message =
                "Invalid configuration: " \o Join(Messages(validateConfig(config)), " ")
    /\ (validation.called /\ outcome.status # "none") =>
          (outcome.status = "thrown" <=> Len(validation.errors) > 0)
    /\ pc = "loop" => validateConfig(config) = <<>>

\* A call that threw for a configuration validateConfig reported one error on.
C8_Witness ==
    /\ outcome.status = "thrown"
    /\ validation.called
    /\ Len(validation.errors) = 1
    /\ outcome.message = "Invalid configuration: Must be none, equal, or full."

\* C9: for an invalid configuration buildChartMathExplanation throws what
\* generateSchedule throws: "Invalid configuration: " and all validation
\* messages in validator order joined by one space; no model is returned.
C9_SameFailure ==
    /\ (explanation.status # "none" /\ lastContext.type = "object"
        /\ validateConfig(config) # <<>>) =>
          explanation = ExplanationThrown(
              "Invalid configuration: " \o Join(Messages(validateConfig(config)), " "))
    /\ (explanation.status = "thrown" /\ lastContext.type = "object"
        /\ outcome.status = "thrown") =>
          explanation.message = outcome.message

\* Both functions threw for a configuration with three validation errors.
C9_Witness ==
    /\ explanation.status = "thrown"
    /\ lastContext.type = "object"
    /\ outcome.status = "thrown"
    /\ Len(validateConfig(config)) = 3
    /\ explanation.message =
          "Invalid configuration: Must be >= 0. Must be > 1. Must be none, equal, or full."

\* The rules of the validator, one per field.
RuleViolated(c, field) ==
    CASE field = "strategy" -> c.strategy \notin {"exponential", "linear", "fixed"}
      [] field = "initialDelayMs" ->
            ~(c.initialDelayMs.k = "num" /\ c.initialDelayMs.v >= 0)
      [] field = "maxRetries" ->
            ~(/\ c.maxRetries.k = "num"
              /\ c.maxRetries.v % 4 = 0
              /\ c.maxRetries.v >= 0
              /\ c.maxRetries.v <= 4 * MAX_RETRIES_LIMIT)
      [] field = "maxDelayMs" ->
            /\ c.maxDelayMs.k # "null"
            /\ ~(c.maxDelayMs.k = "num" /\ c.maxDelayMs.v >= 0)
      [] field = "factor" ->
            /\ c.strategy = "exponential"
            /\ ~(c.factor.k = "num" /\ c.factor.v > 4)
      [] field = "incrementMs" ->
            /\ c.strategy = "linear"
            /\ ~(c.incrementMs.k = "num" /\ c.incrementMs.v >= 0)
      [] field = "jitter" -> c.jitter \notin {"undefined", "none", "equal", "full"}

RuleFields ==
    {"strategy", "initialDelayMs", "maxRetries", "maxDelayMs", "factor", "incrementMs",
     "jitter"}

\* C10: for an object-valued config validateConfig returns a list holding one
\* error for each violated rule and none for the others, so that all
\* violations are reported together and the list is empty exactly when no
\* rule is violated.
C10_AllViolationsReported ==
    (validation.called /\ config.type = "object") =>
        LET errors == validation.errors IN
        /\ \A i \in 1..Len(errors) : errors[i].field \in RuleFields
        /\ \A field \in RuleFields :
              Cardinality({i \in 1..Len(errors) : errors[i].field = field})
                 = IF RuleViolated(config, field) THEN 1 ELSE 0
        /\ (errors = <<>>) <=> (\A field \in RuleFields : ~RuleViolated(config, field))

\* Five rules violated at once, all five reported.
C10_Witness ==
    /\ validation.called
    /\ config.type = "object"
    /\ Len(validation.errors) = 5
    /\ config.strategy = "exponential"

-----------------------------------------------------------------------------
\* C11: validateConfig returns an error tagged maxRetries exactly when
\* maxRetries is not an integer or lies outside 0..1000, that error carries
\* the message "Must be an integer between 0 and 1000." and is the only one
\* with that tag; 0 and 1000 themselves are accepted.
MaxRetriesErrorsOf(errors) ==
    {i \in 1..Len(errors) : errors[i].field = "maxRetries"}

C11_MaxRetriesRule ==
    (validation.called /\ config.type = "object") =>
        LET errors == validation.errors
            n == config.maxRetries
            inRange == n.k = "num" /\ n.v % 4 = 0 /\ n.v >= 0 /\ n.v <= 4 * 1000
        IN /\ (MaxRetriesErrorsOf(errors) # {}) <=> ~inRange
           /\ Cardinality(MaxRetriesErrorsOf(errors)) <= 1
           /\ \A i \in MaxRetriesErrorsOf(errors) :
                 errors[i].message = "Must be an integer between 0 and 1000."
           /\ n \in {Num(0), Num(1000)} => MaxRetriesErrorsOf(errors) = {}

\* The upper bound itself passes validation.
C11_Witness ==
    /\ validation.called
    /\ config.type = "object"
    /\ config.maxRetries = Num(1000)
    /\ validation.errors = <<>>

-----------------------------------------------------------------------------
(* Properties of buildChartMathExplanation, stated on the context of the    *)
(* last call and the model it returned.                                      *)

ExplanationIsReturned == explanation.status = "returned"

\* The rule by which an active point counts as a selection.
PointAccepted(a, c) ==
    /\ a.type = "object"
    /\ a.retry.k = "num" /\ a.retry.v % 4 = 0
    /\ a.retry.v >= 4 /\ a.retry.v <= c.maxRetries.v
    /\ a.valueMs.k = "num"

ResolvedFields ==
    {"rawDelayMs", "cappedDelayMs", "baseChartValueMs", "expectedDelayMs", "minDelayMs",
     "maxDelayMs", "randomizedMinValueMs", "randomizedExpectedValueMs",
     "randomizedMaxValueMs", "chartedValueMs"}

AllResolvedNull(model) ==
    /\ DOMAIN model.resolved = ResolvedFields
    /\ \A field \in ResolvedFields : model.resolved[field] = Null

RetryBinding(model) ==
    CHOOSE b \in {model.variableBindings[i] : i \in 1..Len(model.variableBindings)} :
        b.symbol = "r"

\* C14: built for a valid config with the active point null or missing, in
\* every chart mode and series mode, the model has activeRetry = null, all ten
\* fields of resolved null, and the binding of r valued "symbolic".
C14_NoActivePointIsSymbolic ==
    (ExplanationIsReturned /\ lastContext.activePoint.type \in {"null", "undefined"}) =>
        /\ explanation.model.activeRetry = Null
        /\ AllResolvedNull(explanation.model)
        /\ RetryBinding(explanation.model).value = Symbolic

\* A missing active point in cumulative mode with the simulated series.
C14_Witness ==
    /\ ExplanationIsReturned
    /\ lastContext.activePoint = MissingPoint
    /\ lastContext.chartMode = "cumulative"
    /\ lastContext.chartSeriesMode = "simulated"
    /\ explanation.model.activeRetry = Null
    /\ config.maxRetries = Num(MaxRunRetries)

\* C15: an active point is accepted only as an object with an integer retry
\* in 1..maxRetries and a finite valueMs; then it is kept with minMs and
\* maxMs replaced by valueMs where missing or non-finite.  Every other active
\* point gives, without an error, the model of an absent one, so nothing is
\* accepted when maxRetries = 0.
C15_ActivePointAcceptance ==
    (lastContext.type = "object" /\ Accepted(config) /\ explanation.status # "none") =>
        LET a == lastContext.activePoint
            model == explanation.model
        IN /\ ExplanationIsReturned
           /\ PointAccepted(a, config) =>
                 /\ model.activeRetry = a.retry
                 /\ model.activePoint.type = "object"
                 /\ model.activePoint.retry = a.retry
                 /\ model.activePoint.valueMs = a.valueMs
                 /\ model.activePoint.minMs =
                       IF a.minMs.k = "num" THEN a.minMs ELSE a.valueMs
                 /\ model.activePoint.maxMs =
                       IF a.maxMs.k = "num" THEN a.maxMs ELSE a.valueMs
           /\ ~PointAccepted(a, config) =>
                 /\ model.activeRetry = Null
                 /\ model.activePoint = NullPoint
                 /\ AllResolvedNull(model)
                 /\ model = explanationModel([lastContext EXCEPT !.activePoint = NullPoint])
           /\ config.maxRetries = Num(0) => model.activeRetry = Null

\* Retry 1 offered to a schedule of no retries.
C15_Witness ==
    /\ ExplanationIsReturned
    /\ config.maxRetries = Num(0)
    /\ lastContext.activePoint = ActivePoint(Num(1), Num(3), Num(1), Num(7))
    /\ explanation.model.activeRetry = Null

\* C16: for a valid config and an accepted active retry r the resolved raw,
\* minimum, expected and maximum delays are those of point r of the schedule
\* generateSchedule returned for the same config, and resolved.cappedDelayMs
\* is that point's maxDelayMs.
C16_BuilderAgreesWithGenerator ==
    (ExplanationIsReturned /\ outcome.status = "returned"
        /\ explanation.model.activeRetry # Null) =>
        LET resolved == explanation.model.resolved
            point == outcome.points[explanation.model.activeRetry.v \div 4]
        IN /\ resolved.rawDelayMs = point.rawDelayMs
           /\ resolved.minDelayMs = point.minDelayMs
           /\ resolved.expectedDelayMs = point.expectedDelayMs
           /\ resolved.maxDelayMs = point.maxDelayMs
           /\ resolved.cappedDelayMs = point.maxDelayMs

\* Retry 2 of an exponential schedule under equal jitter, built and generated.
C16_Witness ==
    /\ ExplanationIsReturned
    /\ outcome.status = "returned"
    /\ config.strategy = "exponential"
    /\ config.jitter = "equal"
    /\ explanation.model.activeRetry = Num(2)
    /\ explanation.model.resolved.rawDelayMs = Num(3)
    /\ outcome.points[2].expectedDelayMs = Quarters(9)

\* The jitter range of a value: none gives the value three times, equal
\* gives half, three quarters and the value, full gives 0, half and the value.
JitterRangeOf(value, jitter) ==
    CASE jitter = "equal" ->
            [min |-> Mul(value, Quarters(2)), expected |-> Mul(value, Quarters(3)),
             max |-> value]
      [] jitter = "full" ->
            [min |-> Num(0), expected |-> Mul(value, Quarters(2)), max |-> value]
      [] OTHER -> [min |-> value, expected |-> value, max |-> value]

\* C17: with an accepted active retry r, resolved.baseChartValueMs is the sum
\* of the capped delays of retries 1..r when chartMode is "cumulative" and the
\* capped delay of retry r alone for every other chartMode; the randomized
\* minimum, expected and maximum values are the jitter range of that base.
C17_BaseChartValue ==
    (ExplanationIsReturned /\ explanation.model.activeRetry # Null) =>
        LET resolved == explanation.model.resolved
            r == explanation.model.activeRetry.v \div 4
            capped == [k \in 1..r |-> cappedDelayAtRetry(config, k)]
            jitter == IF config.jitter \in {"equal", "full"} THEN config.jitter ELSE "none"
            range == JitterRangeOf(resolved.baseChartValueMs, jitter)
        IN /\ lastContext.chartMode = "cumulative" =>
                 resolved.baseChartValueMs = SumUpTo(capped, r)
           /\ lastContext.chartMode # "cumulative" =>
                 resolved.baseChartValueMs = capped[r]
           /\ resolved.randomizedMinValueMs = range.min
           /\ resolved.randomizedExpectedValueMs = range.expected
           /\ resolved.randomizedMaxValueMs = range.max

\* Linear delays 1 and 3 summed to 4 at retry 2, with the range of full jitter.
C17_Witness ==
    /\ ExplanationIsReturned
    /\ lastContext.chartMode = "cumulative"
    /\ config.strategy = "linear"
    /\ config.jitter = "full"
    /\ explanation.model.activeRetry = Num(2)
    /\ explanation.model.resolved.cappedDelayMs = Num(3)
    /\ explanation.model.resolved.baseChartValueMs = Num(4)
    /\ explanation.model.resolved.randomizedExpectedValueMs = Num(2)

\* C18: resolved.chartedValueMs is the valueMs the caller passed whenever
\* the active point is accepted, whatever the recomputed expected delay is,
\* and null when no active point is.
C18_ChartedValueVerbatim ==
    ExplanationIsReturned =>
        LET resolved == explanation.model.resolved IN
        /\ explanation.model.activeRetry # Null =>
              resolved.chartedValueMs = lastContext.activePoint.valueMs
        /\ explanation.model.activeRetry = Null => resolved.chartedValueMs = Null

\* A charted value of 3 ms next to a recomputed expected delay of 1 ms.
C18_Witness ==
    /\ ExplanationIsReturned
    /\ lastContext.chartSeriesMode = "simulated"
    /\ explanation.model.activeRetry = Num(1)
    /\ explanation.model.resolved.chartedValueMs = Num(3)
    /\ explanation.model.resolved.expectedDelayMs = Num(1)

-----------------------------------------------------------------------------
\* C13: summarizeSchedule returns three zeros for an empty array and for a
\* value that is no array; for any other array totalRetries is its length and
\* finalDelayMs and totalDelayMs are the last point's delayMs and
\* cumulativeDelayMs.  Applied to the schedule generated for a valid config it
\* gives totalRetries = maxRetries and totalDelayMs = the sum of all delayMs.
C13_SummaryOfSchedule ==
    summary.status = "returned" =>
        LET points == summary.input.points
            n == Len(points)
            result == summary.result
            ofSchedule == /\ summary.input.type = "array"
                          /\ outcome.status = "returned"
                          /\ points = outcome.points
        IN /\ (summary.input.type # "array" \/ n = 0) =>
                 result = [totalRetries |-> Num(0), finalDelayMs |-> Num(0),
                           totalDelayMs |-> Num(0)]
           /\ (summary.input.type = "array" /\ n > 0) =>
                 /\ result.totalRetries = Num(n)
                 /\ result.finalDelayMs = points[n].delayMs
                 /\ result.totalDelayMs = points[n].cumulativeDelayMs
           /\ ofSchedule =>
                 /\ result.totalRetries = config.maxRetries
                 /\ result.totalDelayMs =
                       SumUpTo([i \in 1..n |-> points[i].delayMs], n)

\* The summary of a generated schedule of two growing delays, 1 ms and 3 ms.
C13_Witness ==
    /\ summary.status = "returned"
    /\ outcome.status = "returned"
    /\ summary.input = ArrayOf(outcome.points)
    /\ config.strategy = "linear"
    /\ summary.result = ScheduleSummary(Num(2), Num(3), Num(4))

-----------------------------------------------------------------------------
\* Two configs that are equal, or differ only in a field the strategy ignores.
IrrelevantPair(a, b) ==
    /\ a.type = "object" /\ b.type = "object"
    /\ \/ a.strategy \in {"linear", "fixed"} /\ [a EXCEPT !.factor = b.factor] = b
       \/ a.strategy \in {"exponential", "fixed"}
             /\ [a EXCEPT !.incrementMs = b.incrementMs] = b

ErrorFields(errors) == {errors[i].field : i \in 1..Len(errors)}

\* C12: when two configs differ only in factor under linear or fixed, or only
\* in incrementMs under exponential or fixed, validateConfig returns for one
\* what it returns for the other, with no error for the ignored field
\* whatever it holds (NaN and a missing field included), and generateSchedule
\* ends the same way for both, with equal points.
C12_IrrelevantFieldsIgnored ==
    /\ (validation.called /\ IrrelevantPair(given.validate, config)) =>
          /\ validation.errors = validateConfig(config)
          /\ config.strategy \in {"linear", "fixed"} =>
                "factor" \notin ErrorFields(validation.errors)
          /\ config.strategy \in {"exponential", "fixed"} =>
                "incrementMs" \notin ErrorFields(validation.errors)
    /\ (/\ outcome.status # "none" /\ previous.status # "none"
        /\ IrrelevantPair(given.generateBefore, given.generate)) =>
          outcome = previous

\* A linear config validated and run with factor 3, then run with factor NaN.
C12_Witness ==
    /\ validation.called
    /\ validation.errors = <<>>
    /\ given.validate.factor = Num(3)
    /\ config.strategy = "linear"
    /\ config.factor = NaN
    /\ given.generateBefore.factor = Num(3)
    /\ given.generate.factor = NaN
    /\ previous.status = "returned"
    /\ outcome.status = "returned"
    /\ Len(outcome.points) = 2

-----------------------------------------------------------------------------
(* Properties of src/share.js *)

\* A state whose four modes are recognized and whose five fields are strings.
Shareable(state) ==
    /\ state.strategy \in {Word("exponential"), Word("linear"), Word("fixed")}
    /\ state.jitter \in {Word("none"), Word("equal"), Word("full")}
    /\ state.displayMode \in {Word("ms"), Word("s"), Word("min"), Word("h"), Word("humanize")}
    /\ state.chartMode \in {Word("delay"), Word("cumulative")}
    /\ \A field \in FieldNames : state[field].k = "string"

\* A string in which every surrogate is half of a pair.
WellFormed(s) ==
    \A i \in 1..Len(s) :
        /\ s[i] = HighSurrogate => (i < Len(s) /\ s[i + 1] = LowSurrogate)
        /\ s[i] = LowSurrogate => (i > 1 /\ s[i - 1] = HighSurrogate)

\* C19 as stated: for every state with recognized strategy, jitter,
\* displayMode and chartMode and arbitrary strings (the empty one included) in
\* the five fields, readShareStateFromUrl(createShareUrl(baseUrl, state))
\* returns the state's value in each of the nine fields.
C19_RoundTripAnyString ==
    (parsedState.called /\ Shareable(shareState)) =>
        \A field \in DOMAIN shareState : parsedState.state[field] = shareState[field]

\* C19 amended: the same round trip for states whose five field values are
\* well-formed strings, with no surrogate outside a pair.
C19_RoundTripWellFormed ==
    (/\ parsedState.called
     /\ Shareable(shareState)
     /\ \A field \in FieldNames : WellFormed(shareState[field].s)) =>
        \A field \in DOMAIN shareState : parsedState.state[field] = shareState[field]

\* A cap of "& " read back from a URL that carries a fragment.
C19_Witness ==
    /\ parsedState.called
    /\ Shareable(shareState)
    /\ shareState.maxDelayMs = Str(<<"&", " ">>)
    /\ parsedState.state.maxDelayMs = Str(<<"&", " ">>)
    /\ shareState.initialDelayMs = Word("250")
    /\ NewURL(shareUrl).fragment = Word("chart")

-----------------------------------------------------------------------------
(* Properties of src/main.js *)

\* A field with an error shows the message of one of its errors; a field
\* without one shows no message, or max retries its warning.
MessagesMatch(errors, messages) ==
    \A field \in FieldIds :
       LET own == {errors[i].message : i \in {j \in 1..Len(errors) : errors[j].field = field}}
       IN IF own # {} THEN messages.text[field] \in own /\ messages.ariaInvalid[field]
          ELSE /\ ~messages.ariaInvalid[field]
               /\ \/ messages.text[field] = ""
                  \/ field = "maxRetries" /\ messages.warning

-----------------------------------------------------------------------------
(* Properties of the chart selection state of src/ui.js *)

\* The hover index while the pointer is inside, and null when it is not.
HoverOrNull(state) == IF state.isPointerInside THEN state.hoverIndex ELSE Null

\* An index: an integer that is not negative.
IsIndex(value) == NumberIsInteger(value) /\ LessEq(Num(0), value)

\* C21: activeSelectionIndex returns the pinned index when one is set, else
\* the hover index while the pointer is inside, else null; a pointer move on
\* a pinned state leaves the pinned index the active one; toggling the pinned
\* index, or clearing the pin, removes the pin and leaves the hover index (or
\* null) the active one.
C21_ActiveSelectionPrecedence ==
    LET before == selectionCall.state IN
    /\ selectionCall.op = "activeSelectionIndex" =>
          selectionCall.returned =
             IF before.pinnedIndex # Null THEN before.pinnedIndex ELSE HoverOrNull(before)
    /\ (selectionCall.op = "updateSelectionForPointerMove" /\ before.pinnedIndex # Null) =>
          activeSelectionIndex(selection) = before.pinnedIndex
    /\ (\/ selectionCall.op = "clearPinnedSelection"
        \/ /\ selectionCall.op = "togglePinnedSelection"
           /\ before.pinnedIndex # Null
           /\ selectionCall.argument = before.pinnedIndex) =>
          /\ selection.pinnedIndex = Null
          /\ activeSelectionIndex(selection) = HoverOrNull(selection)

\* The pin at 1 is the active index while the pointer hovers over 3.
C21_Witness ==
    /\ selectionCall.op = "activeSelectionIndex"
    /\ selectionCall.state.pinnedIndex = Num(1)
    /\ selectionCall.state.hoverIndex = Num(3)
    /\ selectionCall.state.isPointerInside
    /\ selectionCall.returned = Num(1)

\* What reconcileSelectionWithPointCount makes of one index for n points.
Reconciled(index, n) ==
    IF ~(NumberIsInteger(n) /\ Less(Num(0), n)) \/ index = Null THEN Null
    ELSE IF Less(Add(n, Num(-1)), index) THEN Add(n, Num(-1)) ELSE index

\* C22: reconcileSelectionWithPointCount(state, n) returns hoverIndex and
\* pinnedIndex each null or within 0..n-1: an index above n-1 is n-1, an
\* index within the range is kept, null stays null, and both are null when n
\* is 0, negative or no integer; isPointerInside is the one of the state
\* passed.
C22_ReconcileClamps ==
    selectionCall.op = "reconcileSelectionWithPointCount" =>
       LET before == selectionCall.state
           after == selectionCall.returned
           n == selectionCall.argument
           InRange(index) ==
              index = Null \/ (IsIndex(index) /\ LessEq(index, Add(n, Num(-1))))
       IN /\ after.hoverIndex = Reconciled(before.hoverIndex, n)
          /\ after.pinnedIndex = Reconciled(before.pinnedIndex, n)
          /\ InRange(after.hoverIndex)
          /\ InRange(after.pinnedIndex)
          /\ after.isPointerInside = before.isPointerInside

\* A pin at 3 becomes a pin at 1 when two points are left.
C22_Witness ==
    /\ selectionCall.op = "reconcileSelectionWithPointCount"
    /\ selectionCall.argument = Num(2)
    /\ selectionCall.state.pinnedIndex = Num(3)
    /\ selectionCall.state.hoverIndex = Num(0)
    /\ selection.pinnedIndex = Num(1)
    /\ selection.hoverIndex = Num(0)

\* C27: in every reachable selection state a hoverIndex that is not null
\* comes with isPointerInside; pointer-move and pointer-leave return the
\* pinnedIndex they were given; toggle-pin with an index that is no
\* non-negative integer returns the state it was given.
C27_SelectionStateInvariant ==
    /\ selection.hoverIndex # Null => selection.isPointerInside
    /\ selectionCall.op \in {"updateSelectionForPointerMove",
                             "updateSelectionForPointerLeave"} =>
          selectionCall.returned.pinnedIndex = selectionCall.state.pinnedIndex
    /\ (selectionCall.op = "togglePinnedSelection" /\ ~IsIndex(selectionCall.argument)) =>
          selectionCall.returned = selectionCall.state

\* Toggling the pin with -1 on a hovered, pinned state.
C27_Witness ==
    /\ selectionCall.op = "togglePinnedSelection"
    /\ selectionCall.argument = Num(-1)
    /\ selection.hoverIndex = Num(1)
    /\ selection.isPointerInside
    /\ selection.pinnedIndex = Num(2)

-----------------------------------------------------------------------------
(* Properties of queueMathTypeset *)

\* The links whose typesetPromise call has started and has not settled.
InFlight == {i \in 1..Len(mathTypesetQueue) : mathTypesetQueue[i].status = "awaiting"}

\* C23: whatever the order of queueMathTypeset calls, callbacks and
\* settlements, at most one mathJax.typesetPromise call is in flight, and
\* while one is, every link before it has settled and every link after it
\* has not started.
C23_TypesetsNeverOverlap ==
    /\ Cardinality(InFlight) <= 1
    /\ \A i \in InFlight :
          /\ \A j \in 1..(i - 1) : mathTypesetQueue[j].status = "settled"
          /\ \A j \in (i + 1)..Len(mathTypesetQueue) : mathTypesetQueue[j].status = "queued"

\* Two calls arrived while the first typeset is in flight.
C23_Witness ==
    /\ Len(mathTypesetQueue) = 3
    /\ mathTypesetQueue[1].status = "awaiting"
    /\ mathTypesetQueue[2].status = "queued"
    /\ mathTypesetQueue[3].status = "queued"
    /\ pendingMathTypesetContainer # Null

-----------------------------------------------------------------------------
(* Order properties of the schedule *)

\* C24: every point of a returned schedule has
\* 0 <= minDelayMs <= expectedDelayMs <= maxDelayMs <= rawDelayMs and
\* cumulativeMinDelayMs <= cumulativeDelayMs <= cumulativeMaxDelayMs.
C24_RangeOrder ==
    outcome.status = "returned" =>
        \A r \in 1..Len(outcome.points) :
           LET point == outcome.points[r] IN
           /\ LessEq(Num(0), point.minDelayMs)
           /\ LessEq(point.minDelayMs, point.expectedDelayMs)
           /\ LessEq(point.expectedDelayMs, point.maxDelayMs)
           /\ LessEq(point.maxDelayMs, point.rawDelayMs)
           /\ LessEq(point.cumulativeMinDelayMs, point.cumulativeDelayMs)
           /\ LessEq(point.cumulativeDelayMs, point.cumulativeMaxDelayMs)

\* C25: in a returned schedule rawDelayMs and delayMs never decrease from one
\* point to the next, and once a point's rawDelayMs is at least the cap every
\* later point has maxDelayMs equal to the cap.
C25_NeverBacksOffLess ==
    outcome.status = "returned" =>
        /\ \A r \in 1..(Len(outcome.points) - 1) :
              /\ LessEq(outcome.points[r].rawDelayMs, outcome.points[r + 1].rawDelayMs)
              /\ LessEq(outcome.points[r].delayMs, outcome.points[r + 1].delayMs)
        /\ config.maxDelayMs # Null =>
              \A r \in 1..Len(outcome.points) :
                 LessEq(config.maxDelayMs, outcome.points[r].rawDelayMs) =>
                    \A later \in (r + 1)..Len(outcome.points) :
                       outcome.points[later].maxDelayMs = config.maxDelayMs

-----------------------------------------------------------------------------
(* The explanation in cumulative chart mode *)

\* An explanation built in cumulative mode for an accepted active retry, with
\* the schedule of the same configuration returned.
CumulativeExplained ==
    /\ ExplanationIsReturned
    /\ outcome.status = "returned"
    /\ explanation.model.chartMode = "cumulative"
    /\ explanation.model.activeRetry # Null

\* The randomized values are the running totals of the active retry's point.
RandomizedAreTotals ==
    LET resolved == explanation.model.resolved
        point == outcome.points[explanation.model.activeRetry.v \div 4]
    IN /\ resolved.randomizedMinValueMs = point.cumulativeMinDelayMs
       /\ resolved.randomizedExpectedValueMs = point.cumulativeDelayMs
       /\ resolved.randomizedMaxValueMs = point.cumulativeMaxDelayMs

-----------------------------------------------------------------------------
(* The simulation cache of src/main.js *)

-----------------------------------------------------------------------------
(* Properties of debounce *)

\* Calls i and i + 1 are at least waitMs apart: call i ends a burst.
EndsBurst(i) ==
    /\ i < Len(debouncedCalls)
    /\ debouncedCalls[i + 1].at - debouncedCalls[i].at >= Wait

\* The runs that came after call i and before any later call.
RunsOf(i) == {r \in 1..Len(fnRuns) : fnRuns[r].calls = i}

\* At most one timer is pending; every run comes waitMs or more after the
\* last call made before it, with that call's arguments; no call has two runs.
DebounceSafe ==
    /\ Cardinality(timers) <= 1
    /\ \A r \in 1..Len(fnRuns) :
          LET last == debouncedCalls[fnRuns[r].calls] IN
          /\ fnRuns[r].at >= last.at + Wait
          /\ fnRuns[r].args = last.args
    /\ \A i \in 1..Len(debouncedCalls) : Cardinality(RunsOf(i)) <= 1

\* Every call is followed by a run of it or of a later call.
DebounceLive ==
    \A i \in 1..MaxDebounceCalls :
       (Len(debouncedCalls) >= i) ~> (\E r \in 1..Len(fnRuns) : fnRuns[r].calls >= i)

====
